---- MODULE Spec2Model ----
(***************************************************************************)
(* Model of package cache of GabrielNunesIT/go-libs: a generic cache with  *)
(* the eviction policies LRU, FIFO, LFU, TTL and None.                     *)
(*                                                                         *)
(* Every public method of Cache takes c.mu for its whole body (Lock,       *)
(* defer Unlock), so a method call is one atomic action of the model and   *)
(* the interleavings of concurrent callers are the orders of the actions.  *)
(* time.Now().UnixNano() is the variable now, advanced by Tick; two calls  *)
(* may read the same instant.                                              *)
(*                                                                         *)
(* An entry is identified by its key (c.items holds one *entry per key);   *)
(* pq.items and evictList hold keys where the code holds *entry and        *)
(* *list.Element (the element is created together with its entry and       *)
(* never replaced).  entry.insertionTime is written once and never read,   *)
(* and is left out of the state.                                           *)
(*                                                                         *)
(* Cache.GetOrSet is documented and tested, but its body is not among the  *)
(* sources; its actions follow the documented protocol: a Get, then a      *)
(* registry of in-flight loads under a lock of its own, the loader run     *)
(* outside every lock, a Set of the loaded value, and the retirement of    *)
(* the registry's record, which releases the callers that joined the load. *)
(***************************************************************************)
EXTENDS Integers, Sequences, FiniteSets, TLC

\* ------------------------------------------------------------ bounds
MaxTime == 2
MaxBumps == 2
NumCallers == 3
NumLoaders == 2
MaxClock == 3
NumTasks == 3
MaxWorkers == 2
MaxShutdowns == 2

Keys == {"a", "b", "c"}
Values == {0, 1}              \* 0 is the zero value of V
\* The calls of Set that are explored: V is opaque to the cache, so one key
\* takes both values (an update can change the value) and the others one each.
SetInputs == {<<"a", 0>>, <<"a", 1>>, <<"b", 1>>, <<"c", 0>>}
Capacities == {0, 1, 2}
TTLs == {0, 1}                \* 0: WithTTL not given
NoKey == "none"
Callers == 1..NumCallers      \* the goroutines that call GetOrSet
LoadKeys == {"a", "b"}        \* the keys they ask for
Loaders == 1..NumLoaders      \* the goroutines whose loaders call the cache
Frames == 1..(2 * NumLoaders) \* their calls, and the calls of their loaders

PolicyLRU == "LRU"
PolicyFIFO == "FIFO"
PolicyLFU == "LFU"
PolicyTTL == "TTL"
PolicyNone == "None"
Policies == {PolicyLRU, PolicyFIFO, PolicyLFU, PolicyTTL, PolicyNone}

VARIABLES
  policy,      \* c.policy
  capacity,    \* c.capacity
  ttl,         \* c.ttl
  items,       \* c.items: key -> entry, NoEntry where the key is absent
  pq,          \* c.pq.items: the heap's slice, as keys
  evictList,   \* c.evictList: front first
  now,         \* the clock
  useOrder,    \* history: the live keys, most recently used first
  insOrder,    \* history: the live keys, most recently inserted first
  deadline,    \* history: per live key, the instant of its last Set plus the
               \* default TTL (0: no default TTL, or the key is absent)
  last,        \* history: the last operation, what it returned, the largest
               \* len(c.items) it passed through (peak) and the keys it removed
               \* unasked: evicted by a Set, expired in a Get (removed),
               \* whether it found its key's entry expired (stale);
               \* fresh until the clock advances after it
  calls,       \* GetOrSet: per caller, where its call stands
  inflight,    \* GetOrSet: per key, the caller whose load is in flight (0: none)
  mu,          \* c.mu: the caller inside Lock..Unlock (w, 0: none) and the
               \* callers inside RLock..RUnlock (r)
  cb,          \* a circuitbreaker.CircuitBreaker, its clock and its callers
  rt,          \* a call of retry.Do, its context and its clock
  pool,        \* a workerpool.Pool, its workers and its context
  ic           \* the size gauge of a metrics.InstrumentedCache around the cache

cacheVars == <<policy, capacity, ttl, items, pq, evictList, now>>
histVars == <<useOrder, insOrder, deadline, last>>
sfVars == <<calls, inflight>>
otherVars == <<cb, rt, pool, ic>>
vars == <<cacheVars, histVars, sfVars, mu, otherVars>>

\* a component that the program has not constructed
NotBuilt == [built |-> FALSE]

NoEntry == [absent |-> TRUE]

\* ------------------------------------------------------------ helpers
Live(its) == {k \in Keys : its[k] # NoEntry}

Range(s) == {s[i] : i \in 1..Len(s)}

Without(s, k) == SelectSeq(s, LAMBDA x : x # k)

MaxOf(a, b) == IF a >= b THEN a ELSE b

\* The cache's structures as one value, so that the methods compose.
Cur == [items |-> items, pq |-> pq, evictList |-> evictList]

len(C) == Cardinality(Live(C.items))

\* ------------------------------------------------------------ priorityQueue
\* pq.items[i], i counted from 0 as in the code
At(C, i) == C.pq[i + 1]

pqLen(C) == Len(C.pq)

\* mutant: LFU compares the frequencies alone, TTL the access times
Less_PrimaryOnly(C, i, j) ==
  LET itemI == C.items[At(C, i)]
      itemJ == C.items[At(C, j)]
  IN CASE policy = PolicyLFU -> itemI.frequency < itemJ.frequency
       [] OTHER -> itemI.accessTime < itemJ.accessTime

Less(C, i, j) ==
  LET itemI == C.items[At(C, i)]
      itemJ == C.items[At(C, j)]
  IN CASE policy = PolicyLFU ->
            IF itemI.frequency = itemJ.frequency
              THEN itemI.accessTime < itemJ.accessTime
              ELSE itemI.frequency < itemJ.frequency
       [] policy = PolicyTTL ->
            IF itemI.expiration = 0 /\ itemJ.expiration = 0
              THEN itemI.accessTime < itemJ.accessTime
              ELSE IF itemI.expiration = 0 THEN FALSE
              ELSE IF itemJ.expiration = 0 THEN TRUE
              ELSE itemI.expiration < itemJ.expiration
       [] OTHER -> itemI.accessTime < itemJ.accessTime

\* mutant: the slice is swapped and the entries' index fields are not updated
Swap_NoIndex(C, i, j) ==
  [C EXCEPT !.pq = [C.pq EXCEPT ![i + 1] = At(C, j), ![j + 1] = At(C, i)]]

Swap(C, i, j) ==
  LET ki == At(C, i)
      kj == At(C, j)
      q == [C.pq EXCEPT ![i + 1] = kj, ![j + 1] = ki]
      e1 == [C.items EXCEPT ![q[i + 1]].index = i]
      e2 == [e1 EXCEPT ![q[j + 1]].index = j]
  IN [C EXCEPT !.pq = q, !.items = e2]

\* Push appends x and sets its index; x's entry is already in C.items.
Push(C, k) ==
  [C EXCEPT !.items[k].index = Len(C.pq), !.pq = Append(C.pq, k)]

\* Pop drops the last element and sets its index to -1.
Pop(C) ==
  LET n == Len(C.pq)
      k == C.pq[n]
  IN [c |-> [C EXCEPT !.items[k].index = -1, !.pq = SubSeq(C.pq, 1, n - 1)],
      item |-> k]

\* ------------------------------------------------------------ container/heap
\* (j - 1) / 2 of Go, which truncates toward zero
Parent(j) == IF j = 0 THEN 0 ELSE (j - 1) \div 2

RECURSIVE up(_, _)
up(C, j) ==
  LET i == Parent(j)
  IN IF i = j \/ ~Less(C, j, i) THEN C ELSE up(Swap(C, i, j), i)

RECURSIVE downFrom(_, _, _)
downFrom(C, i, n) ==
  LET j1 == 2 * i + 1
      j2 == j1 + 1
      j == IF j2 < n /\ Less(C, j2, j1) THEN j2 ELSE j1
  IN IF j1 >= n THEN [c |-> C, i |-> i]
     ELSE IF ~Less(C, j, i) THEN [c |-> C, i |-> i]
     ELSE downFrom(Swap(C, i, j), j, n)

\* down returns whether the element moved
down(C, i0, n) ==
  LET r == downFrom(C, i0, n)
  IN [c |-> r.c, moved |-> r.i > i0]

heapFix(C, i) ==
  LET d == down(C, i, pqLen(C))
  IN IF d.moved THEN d.c ELSE up(d.c, i)

heapPush(C, k) ==
  LET c1 == Push(C, k)
  IN up(c1, pqLen(c1) - 1)

heapPop(C) ==
  LET n == pqLen(C) - 1
      c1 == Swap(C, 0, n)
      d == down(c1, 0, n)
  IN Pop(d.c)

heapRemove(C, i) ==
  LET n == pqLen(C) - 1
      c1 == IF n # i
              THEN LET s == Swap(C, i, n)
                       d == down(s, i, n)
                   IN IF d.moved THEN d.c ELSE up(d.c, i)
              ELSE C
  IN Pop(c1)

\* ------------------------------------------------------------ container/list
PushFront(l, k) == <<k>> \o l

\* MoveToFront and Remove do nothing for an element that is not in the list
MoveToFront(l, k) == IF k \in Range(l) THEN <<k>> \o Without(l, k) ELSE l

ListRemove(l, k) == Without(l, k)

\* Back is nil (NoKey) for an empty list
Back(l) == IF Len(l) = 0 THEN NoKey ELSE l[Len(l)]

\* ------------------------------------------------------------ Cache
\* mutant: the entry leaves the map and its handle stays in the list or heap
removeElement_KeepsHandle(C, k) == [C EXCEPT !.items[k] = NoEntry]

removeElement(C, k) ==
  LET c1 == CASE policy \in {PolicyLRU, PolicyFIFO} ->
                   [C EXCEPT !.evictList = ListRemove(C.evictList, k)]
              [] policy \in {PolicyLFU, PolicyTTL} ->
                   heapRemove(C, C.items[k].index).c
              [] OTHER -> C
  IN [c1 EXCEPT !.items[k] = NoEntry]

evict(C) ==
  CASE policy \in {PolicyLRU, PolicyFIFO} ->
         LET elem == Back(C.evictList)
         IN IF elem # NoKey THEN removeElement(C, elem) ELSE C
    [] policy \in {PolicyLFU, PolicyTTL} ->
         IF pqLen(C) > 0
           THEN LET p == heapPop(C)
                IN [p.c EXCEPT !.items[p.item] = NoEntry]
           ELSE C
    [] OTHER -> C

\* &entry{key: key, value: value}: every other field has its zero value
noneEntry(value) ==
  [value |-> value, index |-> 0, accessTime |-> 0, frequency |-> 0, expiration |-> 0]

\* mutant: under PolicyNone a new key at capacity replaces some entry
setNone_AtCapacity(C, key, value) ==
  IF C.items[key] # NoEntry
    THEN [C EXCEPT !.items[key].value = value]
    ELSE IF capacity > 0 /\ len(C) >= capacity
      THEN LET v == CHOOSE k \in Live(C.items) : TRUE
           IN [C EXCEPT !.items[v] = NoEntry, !.items[key] = noneEntry(value)]
      ELSE [C EXCEPT !.items[key] = noneEntry(value)]

\* Set under PolicyNone
setNone(C, key, value) ==
  IF C.items[key] # NoEntry
    THEN [C EXCEPT !.items[key].value = value]
    ELSE [C EXCEPT !.items[key] = noneEntry(value)]

expirationAt(t) == IF ttl > 0 THEN t + ttl ELSE 0

\* mutant: the update refreshes the bookkeeping and keeps the old value
setUpdate_KeepsValue(C, key, value, t) ==
  LET item == C.items[key]
      upd == [item EXCEPT !.accessTime = t,
                          !.frequency = item.frequency + 1,
                          !.expiration = IF ttl > 0 THEN expirationAt(t) ELSE @]
      c1 == [C EXCEPT !.items[key] = upd]
  IN CASE policy = PolicyLRU ->
            [c1 EXCEPT !.evictList = MoveToFront(c1.evictList, key)]
       [] policy \in {PolicyLFU, PolicyTTL} -> heapFix(c1, upd.index)
       [] OTHER -> c1

\* mutant: an update of an expired entry starts the entry anew
setUpdate_Renews(C, key, value, t) ==
  LET item == C.items[key]
      upd == [item EXCEPT !.value = value,
                          !.accessTime = t,
                          !.frequency = IF item.expiration > 0 /\ t > item.expiration
                                          THEN 1 ELSE item.frequency + 1,
                          !.expiration = IF ttl > 0 THEN expirationAt(t) ELSE @]
      c1 == [C EXCEPT !.items[key] = upd]
  IN CASE policy = PolicyLRU ->
            [c1 EXCEPT !.evictList = MoveToFront(c1.evictList, key)]
       [] policy \in {PolicyLFU, PolicyTTL} -> heapFix(c1, upd.index)
       [] OTHER -> c1

\* Set of a key that is present
setUpdate(C, key, value, t) ==
  LET item == C.items[key]
      upd == [item EXCEPT !.value = value,
                          !.accessTime = t,
                          !.frequency = item.frequency + 1,
                          !.expiration = IF ttl > 0 THEN expirationAt(t) ELSE @]
      c1 == [C EXCEPT !.items[key] = upd]
  IN CASE policy = PolicyLRU ->
            [c1 EXCEPT !.evictList = MoveToFront(c1.evictList, key)]
       [] policy \in {PolicyLFU, PolicyTTL} -> heapFix(c1, upd.index)
       [] OTHER -> c1

\* mutant: the counter of a new entry starts at 0
newEntry_FromZero(value, t) ==
  [value |-> value, index |-> 0, accessTime |-> t, frequency |-> 0,
   expiration |-> expirationAt(t)]

newEntry(value, t) ==
  [value |-> value, index |-> 0, accessTime |-> t, frequency |-> 1,
   expiration |-> expirationAt(t)]

\* the insertion of the new item into the policy's structure and into c.items
insertItem(C, key, value, t) ==
  LET c1 == [C EXCEPT !.items[key] = newEntry(value, t)]
  IN CASE policy \in {PolicyLRU, PolicyFIFO} ->
            [c1 EXCEPT !.evictList = PushFront(c1.evictList, key)]
       [] policy \in {PolicyLFU, PolicyTTL} -> heapPush(c1, key)
       [] OTHER -> c1

\* mutant: the new item is inserted first and the eviction follows
setInsert_EvictAfter(C, key, value, t) ==
  LET c1 == insertItem(C, key, value, t)
      c2 == IF capacity > 0 /\ len(c1) > capacity THEN evict(c1) ELSE c1
  IN [c |-> c2, peak |-> MaxOf(len(c1), len(c2))]

\* mutant: the eviction waits until the cache is over its capacity
setInsert_OffByOne(C, key, value, t) ==
  LET c1 == IF capacity > 0 /\ len(C) > capacity THEN evict(C) ELSE C
      c2 == insertItem(c1, key, value, t)
  IN [c |-> c2, peak |-> MaxOf(len(c1), len(c2))]

\* mutant: every capacity but 0 bounds the cache
setInsert_NonZero(C, key, value, t) ==
  LET c1 == IF capacity # 0 /\ len(C) >= capacity THEN evict(C) ELSE C
      c2 == insertItem(c1, key, value, t)
  IN [c |-> c2, peak |-> MaxOf(len(c1), len(c2))]

\* Set of a key that is absent: the cache after it, and the largest len(c.items)
\* on the way
setInsert(C, key, value, t) ==
  LET c1 == IF capacity > 0 /\ len(C) >= capacity THEN evict(C) ELSE C
      c2 == insertItem(c1, key, value, t)
  IN [c |-> c2, peak |-> MaxOf(len(c1), len(c2))]

setResult(C, key, value, t) ==
  IF policy = PolicyNone
    THEN LET c1 == setNone(C, key, value) IN [c |-> c1, peak |-> len(c1)]
  ELSE IF C.items[key] # NoEntry
    THEN LET c1 == setUpdate(C, key, value, t) IN [c |-> c1, peak |-> len(c1)]
  ELSE setInsert(C, key, value, t)

\* mutant: an entry counts as expired at its expiration time already
isExpired_AtDeadline(item, t) == item.expiration > 0 /\ t >= item.expiration

isExpired(item, t) == item.expiration > 0 /\ t > item.expiration

\* mutant: a hit moves the element to the front under FIFO and not under LRU
getHit_FIFOMoves(C, key, t) ==
  LET item == C.items[key]
      upd == [item EXCEPT !.accessTime = t, !.frequency = item.frequency + 1]
      c1 == [C EXCEPT !.items[key] = upd]
  IN CASE policy = PolicyFIFO ->
            [c1 EXCEPT !.evictList = MoveToFront(c1.evictList, key)]
       [] policy \in {PolicyLFU, PolicyTTL} -> heapFix(c1, upd.index)
       [] OTHER -> c1

\* a hit of Get under a policy other than None; t is the second clock reading
getHit(C, key, t) ==
  LET item == C.items[key]
      upd == [item EXCEPT !.accessTime = t, !.frequency = item.frequency + 1]
      c1 == [C EXCEPT !.items[key] = upd]
  IN CASE policy = PolicyLRU ->
            [c1 EXCEPT !.evictList = MoveToFront(c1.evictList, key)]
       [] policy \in {PolicyLFU, PolicyTTL} -> heapFix(c1, upd.index)
       [] OTHER -> c1

\* mutant: under PolicyNone a hit counts the access
getResult_NoneCounts(C, key, t1, t2) ==
  IF policy = PolicyNone
    THEN IF C.items[key] # NoEntry
           THEN [c |-> [C EXCEPT !.items[key].frequency = @ + 1, !.items[key].accessTime = t2],
                 ret |-> C.items[key].value, ok |-> TRUE]
           ELSE [c |-> C, ret |-> 0, ok |-> FALSE]
  ELSE IF C.items[key] # NoEntry
    THEN IF isExpired(C.items[key], t1)
           THEN [c |-> removeElement(C, key), ret |-> 0, ok |-> FALSE]
           ELSE [c |-> getHit(C, key, t2), ret |-> C.items[key].value, ok |-> TRUE]
  ELSE [c |-> C, ret |-> 0, ok |-> FALSE]

\* Get: the cache after it and what it returns; t1, t2 are its clock readings
getResult(C, key, t1, t2) ==
  IF policy = PolicyNone
    THEN IF C.items[key] # NoEntry
           THEN [c |-> C, ret |-> C.items[key].value, ok |-> TRUE]
           ELSE [c |-> C, ret |-> 0, ok |-> FALSE]
  ELSE IF C.items[key] # NoEntry
    THEN IF isExpired(C.items[key], t1)
           THEN [c |-> removeElement(C, key), ret |-> 0, ok |-> FALSE]
           ELSE [c |-> getHit(C, key, t2), ret |-> C.items[key].value, ok |-> TRUE]
  ELSE [c |-> C, ret |-> 0, ok |-> FALSE]

deleteResult(C, key) ==
  IF C.items[key] # NoEntry THEN removeElement(C, key) ELSE C

\* mutant: the map and the list are reset and the heap's slice is not
clearResult_KeepsHeap(C) ==
  [items |-> [k \in Keys |-> NoEntry], pq |-> C.pq, evictList |-> <<>>]

\* Clear: a new map, evictList.Init(), a new slice and heap.Init of it
clearResult(C) ==
  [items |-> [k \in Keys |-> NoEntry], pq |-> <<>>, evictList |-> <<>>]

CacheLen == len(Cur)

\* ------------------------------------------------------------ history
\* the keys of s that are still live, with k (when used) first
Touch(s, k, live) == SelectSeq(<<k>> \o Without(s, k), LAMBDA x : x \in live)

Keep(s, live) == SelectSeq(s, LAMBDA x : x \in live)

\* the deadlines after an operation that leaves `live`; set # NoKey is the key a
\* Set has just written at instant t
Deadlines(d, live, set, t) ==
  [k \in Keys |-> IF k \notin live THEN 0
                  ELSE IF k = set THEN (IF ttl > 0 THEN t + ttl ELSE 0)
                  ELSE d[k]]

NoOp == [op |-> "none", key |-> NoKey, val |-> 0, ok |-> FALSE, ret |-> 0,
         peak |-> 0, removed |-> {}, stale |-> FALSE, fresh |-> FALSE]

\* ------------------------------------------------------------ GetOrSet
\* A caller that is not inside GetOrSet.  pc is where a call stands, key the key
\* it is working on, leader the caller whose load a waiting caller has joined
\* (0: none), loads the number of times this call has run the loader, val and
\* err what the call returns.
Idle == [pc |-> "idle", key |-> NoKey, leader |-> 0, loads |-> 0, val |-> 0, err |-> FALSE]

\* what a loader can return: a value, or an error with the zero value
LoaderOutcomes == {[val |-> 1, err |-> FALSE], [val |-> 0, err |-> TRUE]}

\* ------------------------------------------------------------ actions
\* New with its options: WithCapacity stores any int
InitCache(capacities) ==
  /\ policy \in Policies
  /\ capacity \in capacities
  /\ ttl \in TTLs
  /\ items = [k \in Keys |-> NoEntry]
  /\ pq = <<>>
  /\ evictList = <<>>
  /\ now = 0
  /\ useOrder = <<>>
  /\ insOrder = <<>>
  /\ deadline = [k \in Keys |-> 0]
  /\ last = NoOp

\* no breaker, no call of retry.Do, no pool and no instrumented cache
InitOthers ==
  /\ cb = NotBuilt
  /\ rt = NotBuilt
  /\ pool = NotBuilt
  /\ ic = NotBuilt

InitWith(capacities) ==
  /\ InitCache(capacities)
  /\ InitOthers
  /\ calls = [c \in Callers |-> Idle]
  /\ inflight = [k \in Keys |-> 0]
  /\ mu = [w |-> 0, r |-> {}]

Init == InitWith(Capacities)

\* The frequency counters are unbounded in the code.  The model bounds the
\* increments that the live entries have received together; an operation that
\* would increment a counter past that is not taken.
RECURSIVE SumBumps(_, _)
SumBumps(its, ks) ==
  IF ks = {} THEN 0
  ELSE LET k == CHOOSE x \in ks : TRUE
       IN (its[k].frequency - 1) + SumBumps(its, ks \ {k})

BumpRoom == SumBumps(items, Live(items)) < MaxBumps

\* whether Set(key, _) would increment a counter
SetBumps(key) == policy # PolicyNone /\ items[key] # NoEntry

\* whether Get(key) would increment a counter
GetBumps(key) ==
  IF policy = PolicyNone \/ items[key] = NoEntry THEN FALSE
  ELSE ~isExpired(items[key], now)

\* the operation finds the entry of its key past its expiration
Stale(key) ==
  IF items[key] = NoEntry THEN FALSE ELSE isExpired(items[key], now)

CacheSet(key, value) ==
  /\ SetBumps(key) => BumpRoom
  /\ \E r \in {setResult(Cur, key, value, now)} :
       \E live \in {Live(r.c.items)} :
         /\ items' = r.c.items
         /\ pq' = r.c.pq
         /\ evictList' = r.c.evictList
         /\ useOrder' = IF policy = PolicyLRU THEN Touch(useOrder, key, live) ELSE useOrder
         /\ insOrder' = IF policy = PolicyFIFO
                          THEN IF items[key] = NoEntry
                                 THEN Touch(insOrder, key, live)
                                 ELSE Keep(insOrder, live)
                          ELSE insOrder
         /\ deadline' = Deadlines(deadline, live, key, now)
         /\ last' = [op |-> "Set", key |-> key, val |-> value, ok |-> items[key] # NoEntry,
                     ret |-> 0, peak |-> r.peak, removed |-> Live(items) \ live,
                     stale |-> Stale(key), fresh |-> TRUE]
  /\ UNCHANGED <<policy, capacity, ttl, now>>

CacheGet(key) ==
  /\ GetBumps(key) => BumpRoom
  /\ \E t2 \in {now, now + 1} :
       /\ t2 <= MaxTime
       /\ \E r \in {getResult(Cur, key, now, t2)} :
            \E live \in {Live(r.c.items)} :
              /\ items' = r.c.items
              /\ pq' = r.c.pq
              /\ evictList' = r.c.evictList
              /\ useOrder' = IF policy = PolicyLRU
                               THEN IF r.ok THEN Touch(useOrder, key, live)
                                            ELSE Keep(useOrder, live)
                               ELSE useOrder
              /\ insOrder' = IF policy = PolicyFIFO THEN Keep(insOrder, live) ELSE insOrder
              /\ deadline' = Deadlines(deadline, live, NoKey, now)
              /\ last' = [op |-> "Get", key |-> key, val |-> 0, ok |-> r.ok, ret |-> r.ret,
                          peak |-> Cardinality(live), removed |-> Live(items) \ live,
                          stale |-> Stale(key), fresh |-> TRUE]
       /\ now' = t2
  /\ UNCHANGED <<policy, capacity, ttl>>

Set(key, value) == CacheSet(key, value) /\ UNCHANGED <<sfVars, mu, otherVars>>

Get(key) == CacheGet(key) /\ UNCHANGED <<sfVars, mu, otherVars>>

CacheDelete(key) ==
  /\ \E c1 \in {deleteResult(Cur, key)} :
       \E live \in {Live(c1.items)} :
         /\ items' = c1.items
         /\ pq' = c1.pq
         /\ evictList' = c1.evictList
         /\ useOrder' = Keep(useOrder, live)
         /\ insOrder' = Keep(insOrder, live)
         /\ deadline' = Deadlines(deadline, live, NoKey, now)
         /\ last' = [op |-> "Delete", key |-> key, val |-> 0, ok |-> items[key] # NoEntry, ret |-> 0,
                     peak |-> Cardinality(live), removed |-> {}, stale |-> Stale(key),
                     fresh |-> TRUE]
  /\ UNCHANGED <<policy, capacity, ttl, now>>

Delete(key) == CacheDelete(key) /\ UNCHANGED <<sfVars, mu, otherVars>>

CacheClear ==
  /\ LET c1 == clearResult(Cur)
     IN /\ items' = c1.items
        /\ pq' = c1.pq
        /\ evictList' = c1.evictList
  /\ useOrder' = <<>>
  /\ insOrder' = <<>>
  /\ deadline' = [k \in Keys |-> 0]
  /\ last' = [NoOp EXCEPT !.op = "Clear", !.peak = CacheLen, !.fresh = TRUE]
  /\ UNCHANGED <<policy, capacity, ttl, now>>

Clear == CacheClear /\ UNCHANGED <<sfVars, mu, otherVars>>

Tick ==
  /\ now < MaxTime
  /\ now' = now + 1
  /\ last' = [last EXCEPT !.fresh = FALSE]
  /\ UNCHANGED <<policy, capacity, ttl, items, pq, evictList, useOrder, insOrder, deadline>>
  /\ UNCHANGED <<sfVars, mu, otherVars>>

\* c.mu is a sync.RWMutex.  Set, Delete and Clear take Lock, Len takes RLock,
\* and Get takes RLock under PolicyNone and Lock under every other policy.
Methods == {"Set", "Get", "Delete", "Clear", "Len"}

\* mutant: Get takes RLock under every policy
Exclusive_GetShared(op) == op \in {"Set", "Delete", "Clear"}

\* whether method op takes Lock (otherwise RLock)
Exclusive(op) ==
  \/ op \in {"Set", "Delete", "Clear"}
  \/ op = "Get" /\ policy # PolicyNone

\* the lock that op takes can be taken: Lock waits for the writer and the
\* readers to leave, RLock for the writer
Free(op) == mu.w = 0 /\ (Exclusive(op) => mu.r = {})

\* The steps of c.GetOrSet(key, loader), one caller's call at a time.
\* A step that is not a call of Get or Set leaves the cache alone, and the last
\* cache operation is not kept across it.
CacheIdle ==
  /\ last' = NoOp
  /\ UNCHANGED <<policy, capacity, ttl, items, pq, evictList, now, useOrder, insOrder, deadline>>
  /\ UNCHANGED otherVars

\* the call begins
GetOrSetCall(c, key) ==
  /\ calls[c].pc = "idle"
  /\ calls' = [calls EXCEPT ![c] = [Idle EXCEPT !.pc = "check", !.key = key]]
  /\ UNCHANGED <<inflight, mu>>
  /\ CacheIdle

\* the key is looked up with Get: a hit is returned at once
GetOrSetLookup(c) ==
  /\ calls[c].pc = "check"
  /\ CacheGet(calls[c].key)
  /\ calls' = [calls EXCEPT ![c] =
                 IF last'.ok THEN [@ EXCEPT !.pc = "return", !.key = NoKey, !.val = last'.ret]
                             ELSE [@ EXCEPT !.pc = "register"]]
  /\ UNCHANGED <<inflight, otherVars>>

\* the lookup as one step, from the taking of Get's lock to its release
GetOrSetCheck(c) ==
  /\ Free("Get")
  /\ GetOrSetLookup(c)
  /\ UNCHANGED mu

\* mutant: every caller that missed starts a load of its own
GetOrSetRegister_NoJoin(c) ==
  /\ calls[c].pc = "register"
  /\ inflight' = [inflight EXCEPT ![calls[c].key] = c]
  /\ calls' = [calls EXCEPT ![c].pc = "load"]
  /\ CacheIdle
  /\ UNCHANGED mu

\* under the registry's lock: join the load in flight for the key, or become
\* the caller that loads it
GetOrSetRegister(c) ==
  /\ calls[c].pc = "register"
  /\ IF inflight[calls[c].key] # 0
       THEN /\ calls' = [calls EXCEPT ![c].pc = "wait", ![c].leader = inflight[calls[c].key]]
            /\ UNCHANGED inflight
       ELSE /\ inflight' = [inflight EXCEPT ![calls[c].key] = c]
            /\ calls' = [calls EXCEPT ![c].pc = "load"]
  /\ CacheIdle
  /\ UNCHANGED mu

\* mutant: what the loader returned is stored, error or not
GetOrSetLoad_StoresAlways(c) ==
  /\ calls[c].pc = "load"
  /\ \E out \in LoaderOutcomes :
       calls' = [calls EXCEPT ![c].loads = @ + 1, ![c].val = out.val, ![c].err = out.err,
                              ![c].pc = "store"]
  /\ UNCHANGED <<inflight, mu>>
  /\ CacheIdle

\* the loader returns, no lock held
GetOrSetLoad(c) ==
  /\ calls[c].pc = "load"
  /\ \E out \in LoaderOutcomes :
       calls' = [calls EXCEPT ![c].loads = @ + 1, ![c].val = out.val, ![c].err = out.err,
                              ![c].pc = IF out.err THEN "retire" ELSE "store"]
  /\ UNCHANGED <<inflight, mu>>
  /\ CacheIdle

\* a loaded value is stored with Set
GetOrSetPut(c) ==
  /\ calls[c].pc = "store"
  /\ CacheSet(calls[c].key, calls[c].val)
  /\ calls' = [calls EXCEPT ![c].pc = "retire"]
  /\ UNCHANGED <<inflight, otherVars>>

\* the Set as one step, from the taking of its lock to its release
GetOrSetStore(c) ==
  /\ Free("Set")
  /\ GetOrSetPut(c)
  /\ UNCHANGED mu

\* mutant: the callers that joined are released and the record stays
GetOrSetRetire_KeepsRecord(c) ==
  /\ calls[c].pc = "retire"
  /\ UNCHANGED inflight
  /\ calls' = [d \in DOMAIN calls |->
                 IF d = c THEN [calls[c] EXCEPT !.pc = "return", !.key = NoKey]
                 ELSE IF calls[d].pc = "wait" /\ calls[d].leader = c
                   THEN [calls[d] EXCEPT !.pc = "return", !.key = NoKey,
                                         !.val = calls[c].val, !.err = calls[c].err]
                   ELSE calls[d]]
  /\ CacheIdle
  /\ UNCHANGED mu

\* under the registry's lock: the record is retired and the callers that
\* joined the load receive its result
GetOrSetRetire(c) ==
  /\ calls[c].pc = "retire"
  /\ inflight' = [inflight EXCEPT ![calls[c].key] = 0]
  /\ calls' = [d \in DOMAIN calls |->
                 IF d = c THEN [calls[c] EXCEPT !.pc = "return", !.key = NoKey]
                 ELSE IF calls[d].pc = "wait" /\ calls[d].leader = c
                   THEN [calls[d] EXCEPT !.pc = "return", !.key = NoKey,
                                         !.val = calls[c].val, !.err = calls[c].err]
                   ELSE calls[d]]
  /\ CacheIdle
  /\ UNCHANGED mu

\* the call returns (val, err)
GetOrSetReturn(c) ==
  /\ calls[c].pc = "return"
  /\ calls' = [calls EXCEPT ![c] = Idle]
  /\ UNCHANGED <<inflight, mu>>
  /\ CacheIdle

\* A method of the cache, entered and left in two steps: the caller takes the
\* method's lock on entry, and the method's body and the deferred unlock are
\* the second step.  (An operation that the model's bound on the frequency
\* counters rules out is not entered.)
MethodEnter(c, op, key, value) ==
  /\ calls[c].pc = "idle"
  /\ Free(op)
  /\ op = "Set" => (SetBumps(key) => BumpRoom)
  /\ op = "Get" => (GetBumps(key) => BumpRoom)
  /\ mu' = IF Exclusive(op) THEN [mu EXCEPT !.w = c] ELSE [mu EXCEPT !.r = @ \cup {c}]
  /\ calls' = [calls EXCEPT ![c] = [Idle EXCEPT !.pc = op, !.key = key, !.val = value]]
  /\ UNCHANGED inflight
  /\ CacheIdle

\* c holds c.mu, exclusive or shared
Holds(c) == mu.w = c \/ c \in mu.r

\* the method whose lock the call of frame c takes next
LockOp(c) ==
  IF calls[c].pc = "check" THEN "Get"
  ELSE IF calls[c].pc = "store" THEN "Set"
  ELSE calls[c].pc

\* the calls that wait in Lock, and those that wait in RLock
Waiting == {d \in DOMAIN calls : calls[d].pc \in Methods \cup {"check", "store"} /\ ~Holds(d)}

LockWaiters == {d \in Waiting : Exclusive(LockOp(d))}

RLockWaiters == {d \in Waiting : ~Exclusive(LockOp(d))}

\* mutant: GetOrSet keeps Get's lock after a miss, until its Set has stored
\* what the loader returned
Unlock_AfterStore(c) ==
  mu' = IF calls'[c].pc = "register" THEN mu
        ELSE [w |-> IF mu.w = c THEN 0 ELSE mu.w, r |-> mu.r \ {c}]

\* the deferred c.mu.Unlock() or c.mu.RUnlock() of a method.  Unlock lets in
\* the readers that wait in RLock.
Unlock(c) ==
  mu' = IF mu.w = c THEN [w |-> 0, r |-> RLockWaiters]
        ELSE [w |-> mu.w, r |-> mu.r \ {c}]

\* Len: len(c.items)
CacheLenRead ==
  /\ last' = [NoOp EXCEPT !.op = "Len", !.ret = CacheLen, !.peak = CacheLen, !.fresh = TRUE]
  /\ UNCHANGED <<policy, capacity, ttl, items, pq, evictList, now, useOrder, insOrder, deadline>>

MethodLeave(c) ==
  /\ calls[c].pc \in Methods
  /\ \/ calls[c].pc = "Set" /\ CacheSet(calls[c].key, calls[c].val)
     \/ calls[c].pc = "Get" /\ CacheGet(calls[c].key)
     \/ calls[c].pc = "Delete" /\ CacheDelete(calls[c].key)
     \/ calls[c].pc = "Clear" /\ CacheClear
     \/ calls[c].pc = "Len" /\ CacheLenRead
  /\ calls' = [calls EXCEPT ![c] = Idle]
  /\ UNCHANGED <<inflight, otherVars>>
  /\ Unlock(c)

\* The lock seen from GetOrSet and its loader.  A call of a method is three
\* steps: the call, the taking of the method's lock, and the body with the
\* unlock; the Get and the Set inside GetOrSet are the last two.  The call that
\* the loader of caller c makes runs in the frame Nest(c), on c's goroutine.
Nest(c) == c + NumLoaders

\* a method is called and its lock not yet taken
MethodCall(c, op, key, value) ==
  /\ calls[c].pc = "idle"
  /\ calls' = [calls EXCEPT ![c] = [Idle EXCEPT !.pc = op, !.key = key, !.val = value]]
  /\ UNCHANGED <<inflight, mu>>
  /\ CacheIdle

\* c.mu.Lock() or c.mu.RLock(), at the head of a method.  RLock waits while a
\* call waits in Lock, so that readers do not keep a writer out for ever.
Lock(c) ==
  /\ c \in Waiting
  /\ Free(LockOp(c))
  /\ Exclusive(LockOp(c)) \/ LockWaiters = {}
  /\ mu' = IF Exclusive(LockOp(c)) THEN [mu EXCEPT !.w = c] ELSE [mu EXCEPT !.r = @ \cup {c}]
  /\ UNCHANGED <<calls, inflight>>
  /\ CacheIdle

\* GetOrSet's Get, the lock held
LockedCheck(c) ==
  /\ Holds(c)
  /\ GetOrSetLookup(c)
  /\ Unlock(c)

\* GetOrSet's Set, the lock held
LockedStore(c) ==
  /\ Holds(c)
  /\ GetOrSetPut(c)
  /\ Unlock(c)

\* the body of a method and its return, the lock held
LockedLeave(c) ==
  /\ Holds(c)
  /\ MethodLeave(c)

\* the loader of c calls Get, Set or GetOrSet for another key than the one it
\* loads; the loader of the inner GetOrSet calls nothing
LoaderCalls(c, op, key, value) ==
  /\ calls[c].pc = "load"
  /\ calls[Nest(c)].pc = "idle"
  /\ key # calls[c].key
  /\ calls' = [calls EXCEPT
                 ![c].pc = "nested",
                 ![Nest(c)] = [Idle EXCEPT !.pc = IF op = "GetOrSet" THEN "check" ELSE op,
                                           !.key = key, !.val = value]]
  /\ UNCHANGED <<inflight, mu>>
  /\ CacheIdle

\* the call that the loader made has returned, and the loader returns
LoaderResumes(c) ==
  /\ calls[c].pc = "nested"
  /\ calls[Nest(c)].pc = "idle"
  /\ \E out \in LoaderOutcomes :
       calls' = [calls EXCEPT ![c].loads = @ + 1, ![c].val = out.val, ![c].err = out.err,
                              ![c].pc = IF out.err THEN "retire" ELSE "store"]
  /\ UNCHANGED <<inflight, mu>>
  /\ CacheIdle

\* the steps that a call takes by itself once it has begun
Steps(c) ==
  \/ Lock(c)
  \/ LockedCheck(c)
  \/ GetOrSetRegister(c)
  \/ GetOrSetLoad(c)
  \/ LoaderResumes(c)
  \/ LockedStore(c)
  \/ GetOrSetRetire(c)
  \/ GetOrSetReturn(c)
  \/ LockedLeave(c)

\* the steps of goroutine c: those of its call and of the call of its loader
Runs(c) == Steps(c) \/ Steps(Nest(c))

Next ==
  \/ \E in \in SetInputs : Set(in[1], in[2])
  \/ \E key \in Keys : Get(key)
  \/ \E key \in Keys : Delete(key)
  \/ Clear
  \/ Tick

Spec == Init /\ [][Next]_vars

\* the caches with a capacity, where a Set can evict
InitBounded == Init /\ capacity > 0

SpecBounded == InitBounded /\ [][Next]_vars

\* the caches with a default TTL, where an entry can expire
InitExpiring == Init /\ ttl > 0

SpecExpiring == InitExpiring /\ [][Next]_vars

\* the caches built with a negative capacity and with capacity 0
InitUnbounded == InitWith({-1, 0})

SpecUnbounded == InitUnbounded /\ [][Next]_vars

\* concurrent callers of GetOrSet on the cache that New builds by default (LRU)
\* and on a plain map, without or with a capacity of one; Delete makes a
\* loaded key uncached again
InitGetOrSet ==
  /\ Init
  /\ policy \in {PolicyLRU, PolicyNone}
  /\ capacity \in {0, 1}
  /\ ttl = 0

NextGetOrSet ==
  \/ \E c \in Callers, key \in LoadKeys : GetOrSetCall(c, key)
  \/ \E c \in Callers : GetOrSetCheck(c)
  \/ \E c \in Callers : GetOrSetRegister(c)
  \/ \E c \in Callers : GetOrSetLoad(c)
  \/ \E c \in Callers : GetOrSetStore(c)
  \/ \E c \in Callers : GetOrSetRetire(c)
  \/ \E c \in Callers : GetOrSetReturn(c)
  \/ \E key \in LoadKeys : Delete(key)

SpecGetOrSet == InitGetOrSet /\ [][NextGetOrSet]_vars

\* concurrent callers of the cache's methods, each inside its method from the
\* taking of the lock to its release
InitLocks ==
  /\ Init
  /\ capacity = 1
  /\ ttl = 0

NextLocks ==
  \/ \E c \in Callers, in \in SetInputs : MethodEnter(c, "Set", in[1], in[2])
  \/ \E c \in Callers, key \in Keys : MethodEnter(c, "Get", key, 0)
  \/ \E c \in Callers, key \in Keys : MethodEnter(c, "Delete", key, 0)
  \/ \E c \in Callers : MethodEnter(c, "Clear", NoKey, 0)
  \/ \E c \in Callers : MethodEnter(c, "Len", NoKey, 0)
  \/ \E c \in Callers : MethodLeave(c)

SpecLocks == InitLocks /\ [][NextLocks]_vars

\* the same callers on a cache whose entries expire: the clock advances, so a
\* loaded value can expire, be evicted (capacity 1) or be deleted before it is
\* looked up again
InitGetOrSetExpiring ==
  /\ Init
  /\ policy = PolicyLRU
  /\ capacity = 1
  /\ ttl = 1

NextGetOrSetExpiring ==
  \/ NextGetOrSet
  \/ Tick

SpecGetOrSetExpiring == InitGetOrSetExpiring /\ [][NextGetOrSetExpiring]_vars

\* Every caller asks for the same key of a plain map, and a caller whose loader
\* has returned goes on: Set and the registry's lock are held for a bounded
\* time, so the goroutine is not kept from its Set or from retiring its record
\* for ever.  The loader itself need not return.  (A plain map, because the
\* model's bound on the frequency counters can disable a Set under the other
\* policies, which no Set of the code is.)
InitGetOrSetFair ==
  /\ Init
  /\ policy = PolicyNone
  /\ capacity = 0
  /\ ttl = 0

NextGetOrSetFair ==
  \/ \E c \in Callers : GetOrSetCall(c, "a")
  \/ \E c \in Callers : GetOrSetCheck(c)
  \/ \E c \in Callers : GetOrSetRegister(c)
  \/ \E c \in Callers : GetOrSetLoad(c)
  \/ \E c \in Callers : GetOrSetStore(c)
  \/ \E c \in Callers : GetOrSetRetire(c)
  \/ \E c \in Callers : GetOrSetReturn(c)
  \/ Delete("a")

SpecGetOrSetFair ==
  /\ InitGetOrSetFair
  /\ [][NextGetOrSetFair]_vars
  /\ \A c \in Callers : WF_vars(GetOrSetStore(c)) /\ WF_vars(GetOrSetRetire(c))

\* Two goroutines on a plain map.  Each calls GetOrSet, whose loader may call
\* Get, Set or GetOrSet in its turn, or one of Get, Set, Delete and Len.  A
\* call that has begun goes on whenever it can: sync.RWMutex hands the lock to
\* a goroutine that waits for it, the registry's lock is held for a bounded
\* time, and a loader that is not kept waiting by the cache returns.
InitLoader ==
  /\ InitCache({0})
  /\ InitOthers
  /\ policy = PolicyNone
  /\ ttl = 0
  /\ calls = [c \in Frames |-> Idle]
  /\ inflight = [k \in Keys |-> 0]
  /\ mu = [w |-> 0, r |-> {}]

NextLoader ==
  \/ \E c \in Loaders, key \in LoadKeys : GetOrSetCall(c, key)
  \/ \E c \in Loaders, op \in {"Get", "Set", "Delete"}, key \in LoadKeys :
       MethodCall(c, op, key, 1)
  \/ \E c \in Loaders : MethodCall(c, "Len", NoKey, 0)
  \/ \E c \in Loaders, op \in {"Get", "Set", "GetOrSet"}, key \in LoadKeys :
       LoaderCalls(c, op, key, 1)
  \/ \E c \in Frames : Lock(c)
  \/ \E c \in Frames : LockedCheck(c)
  \/ \E c \in Frames : GetOrSetRegister(c)
  \/ \E c \in Frames : GetOrSetLoad(c)
  \/ \E c \in Loaders : LoaderResumes(c)
  \/ \E c \in Frames : LockedStore(c)
  \/ \E c \in Frames : GetOrSetRetire(c)
  \/ \E c \in Frames : GetOrSetReturn(c)
  \/ \E c \in Frames : LockedLeave(c)

SpecLoader ==
  /\ InitLoader
  /\ [][NextLoader]_vars
  /\ \A c \in Loaders : SF_vars(Runs(c))

\* ------------------------------------------------------------ circuitbreaker
StateClosed == "Closed"
StateOpen == "Open"
StateHalfOpen == "HalfOpen"

defaultThreshold == 5
defaultHalfOpenMax == 1

\* the arguments given to WithThreshold, WithHalfOpenMax and WithTimeout (in
\* ticks of the breaker's clock)
ThresholdOptions == {-1, 0, 1, 2}
HalfOpenMaxOptions == {0, 1, 2}
TimeoutOptions == {0, 1, 2}

WithThreshold(n) == IF n > 0 THEN n ELSE defaultThreshold

WithHalfOpenMax(n) == IF n > 0 THEN n ELSE defaultHalfOpenMax

\* New(WithThreshold(n), WithTimeout(d), WithHalfOpenMax(m),
\* WithOnStateChange(fn)); lastFailure is the zero time, and said collects
\* the calls of fn that a method makes
NewBreaker(n, d, m) ==
  [state |-> StateClosed, failures |-> 0, successes |-> 0, lastFailure |-> 0,
   threshold |-> WithThreshold(n), timeout |-> d, halfOpenMax |-> WithHalfOpenMax(m),
   said |-> <<>>]

\* cb.onStateChange(from, to)
onStateChange(b, from, to) == [b EXCEPT !.said = Append(@, [from |-> from, to |-> to])]

\* mutant: the callback is left out when the breaker closes
transitionTo_QuietClose(b, to) ==
  LET b1 == [b EXCEPT !.state = to, !.failures = 0, !.successes = 0]
  IN IF to = StateClosed THEN b1 ELSE onStateChange(b1, b.state, to)

transitionTo(b, to) ==
  onStateChange([b EXCEPT !.state = to, !.failures = 0, !.successes = 0], b.state, to)

\* mutant: the first successful probe closes the circuit
onSuccess_FirstProbeCloses(b) ==
  CASE b.state = StateClosed -> [b EXCEPT !.failures = 0]
    [] b.state = StateHalfOpen -> transitionTo(b, StateClosed)
    [] OTHER -> b

onSuccess(b) ==
  CASE b.state = StateClosed -> [b EXCEPT !.failures = 0]
    [] b.state = StateHalfOpen ->
         LET b1 == [b EXCEPT !.successes = @ + 1]
         IN IF b1.successes >= b1.halfOpenMax THEN transitionTo(b1, StateClosed) ELSE b1
    [] OTHER -> b

\* mutant: the circuit opens when the failures exceed the threshold
onFailure_PastThreshold(b, t) ==
  CASE b.state = StateClosed ->
         LET b1 == [b EXCEPT !.failures = @ + 1]
         IN IF b1.failures > b1.threshold
              THEN transitionTo([b1 EXCEPT !.lastFailure = t], StateOpen)
              ELSE b1
    [] b.state = StateHalfOpen -> transitionTo([b EXCEPT !.lastFailure = t], StateOpen)
    [] OTHER -> b

\* t is what cb.nowFunc() returns
onFailure(b, t) ==
  CASE b.state = StateClosed ->
         LET b1 == [b EXCEPT !.failures = @ + 1]
         IN IF b1.failures >= b1.threshold
              THEN transitionTo([b1 EXCEPT !.lastFailure = t], StateOpen)
              ELSE b1
    [] b.state = StateHalfOpen -> transitionTo([b EXCEPT !.lastFailure = t], StateOpen)
    [] OTHER -> b

\* mutant: the timeout is counted from the construction of the breaker
admit_SinceStart(b, t) ==
  CASE b.state = StateOpen ->
         IF t >= b.timeout
           THEN [b |-> transitionTo(b, StateHalfOpen), ok |-> TRUE]
           ELSE [b |-> b, ok |-> FALSE]
    [] b.state = StateHalfOpen -> [b |-> b, ok |-> ~(b.successes >= b.halfOpenMax)]
    [] OTHER -> [b |-> b, ok |-> TRUE]

\* the first critical section of Execute: the breaker after it, and whether fn
\* is let through (otherwise ErrCircuitOpen is returned)
admit(b, t) ==
  CASE b.state = StateOpen ->
         IF t - b.lastFailure >= b.timeout
           THEN [b |-> transitionTo(b, StateHalfOpen), ok |-> TRUE]
           ELSE [b |-> b, ok |-> FALSE]
    [] b.state = StateHalfOpen -> [b |-> b, ok |-> ~(b.successes >= b.halfOpenMax)]
    [] OTHER -> [b |-> b, ok |-> TRUE]

\* Reset
reset(b) ==
  LET b1 == [b EXCEPT !.state = StateClosed, !.failures = 0, !.successes = 0]
  IN IF b.state # StateClosed THEN onStateChange(b1, b.state, StateClosed) ELSE b1

\* the breaker that a method leaves, its calls of the callback taken out
Quiet(b) == [b EXCEPT !.said = <<>>]

\* the state that the callback has last been told of
Heard(h, said) == IF said = <<>> THEN h ELSE said[Len(said)].to

\* a caller outside Execute
Outside == [pc |-> "idle", from |-> StateClosed]

\* cb.b is the breaker, cb.now its clock, cb.calls where each caller's Execute
\* stands (pc "fn": fn is running, from: the state in which it was let
\* through).  History: cb.streak counts the calls let through in Closed that
\* failed since the last successful call or Reset, cb.probes the calls let
\* through since the breaker last became Half-Open, cb.last is the last step,
\* cb.fired the calls of the onStateChange callback made in it and cb.heard
\* the state that the callback had been told of before it.
InitBreaker ==
  /\ InitCache({0})
  /\ policy = PolicyNone
  /\ ttl = 0
  /\ calls = [c \in Callers |-> Idle]
  /\ inflight = [k \in Keys |-> 0]
  /\ mu = [w |-> 0, r |-> {}]
  /\ rt = NotBuilt
  /\ pool = NotBuilt
  /\ ic = NotBuilt
  /\ \E n \in ThresholdOptions, d \in TimeoutOptions, m \in HalfOpenMaxOptions :
       cb = [b |-> NewBreaker(n, d, m), now |-> 0,
             calls |-> [c \in Callers |-> Outside],
             streak |-> 0, probes |-> 0, fired |-> <<>>, heard |-> StateClosed,
             last |-> [op |-> "New", caller |-> 0, ret |-> "none"]]

BreakerOnly == UNCHANGED <<cacheVars, histVars, sfVars, mu, rt, pool, ic>>

\* Execute up to the call of fn: fn is let through or ErrCircuitOpen returned
ExecuteEnter(c) ==
  /\ cb.calls[c].pc = "idle"
  /\ \E a \in {admit(cb.b, cb.now)} :
       cb' = [cb EXCEPT
                !.b = Quiet(a.b),
                !.fired = a.b.said,
                !.heard = Heard(cb.heard, cb.fired),
                !.calls[c] = IF a.ok THEN [pc |-> "fn", from |-> a.b.state] ELSE Outside,
                !.probes = IF ~a.ok THEN @
                           ELSE IF a.b.state # StateHalfOpen THEN 0
                           ELSE IF cb.b.state = StateOpen THEN 1
                           ELSE @ + 1,
                !.last = [op |-> "Enter", caller |-> c,
                          ret |-> IF a.ok THEN "none" ELSE "ErrCircuitOpen"]]
  /\ BreakerOnly

\* fn returns err (failed: err # nil) and Execute records it and returns it
ExecuteLeave(c, failed) ==
  /\ cb.calls[c].pc = "fn"
  /\ \E b1 \in {IF failed THEN onFailure(cb.b, cb.now) ELSE onSuccess(cb.b)} :
     cb' = [cb EXCEPT
              !.b = Quiet(b1),
              !.fired = b1.said,
              !.heard = Heard(cb.heard, cb.fired),
              !.calls[c] = Outside,
              !.streak = IF ~failed THEN 0
                         ELSE IF cb.calls[c].from = StateClosed THEN @ + 1
                         ELSE @,
              !.last = [op |-> "Leave", caller |-> c,
                        ret |-> IF failed THEN "err" ELSE "nil"]]
  /\ BreakerOnly

Reset ==
  /\ cb' = [cb EXCEPT !.b = Quiet(reset(cb.b)), !.fired = reset(cb.b).said,
                      !.heard = Heard(cb.heard, cb.fired),
                      !.streak = 0, !.probes = 0,
                      !.last = [op |-> "Reset", caller |-> 0, ret |-> "none"]]
  /\ BreakerOnly

\* the breaker's clock advances
BreakerTick ==
  /\ cb.now < MaxClock
  /\ cb' = [cb EXCEPT !.now = @ + 1, !.fired = <<>>,
                      !.heard = Heard(cb.heard, cb.fired),
                      !.last = [op |-> "Tick", caller |-> 0, ret |-> "none"]]
  /\ BreakerOnly

\* sequential use: one call of Execute or Reset at a time
NoExecute == \A c \in Callers : cb.calls[c].pc = "idle"

ExecuteAlone(c) == NoExecute /\ ExecuteEnter(c)

ResetAlone == NoExecute /\ Reset

NextBreaker ==
  \/ \E c \in Callers : ExecuteAlone(c)
  \/ \E c \in Callers, failed \in BOOLEAN : ExecuteLeave(c, failed)
  \/ ResetAlone
  \/ BreakerTick

SpecBreaker == InitBreaker /\ [][NextBreaker]_vars

\* concurrent use
NextBreakerConcurrent ==
  \/ \E c \in Callers : ExecuteEnter(c)
  \/ \E c \in Callers, failed \in BOOLEAN : ExecuteLeave(c, failed)
  \/ Reset
  \/ BreakerTick

SpecBreakerConcurrent == InitBreaker /\ [][NextBreakerConcurrent]_vars

\* ------------------------------------------------------------ retry
StrategyConstant == "Constant"
StrategyLinear == "Linear"
StrategyExponential == "Exponential"
Strategies == {StrategyConstant, StrategyLinear, StrategyExponential}

defaultMaxAttempts == 3

\* the arguments given to WithMaxAttempts, WithDelay and WithMaxDelay (in
\* ticks of the clock)
MaxAttemptsOptions == {-1, 0, 1, 2, 3}
DelayOptions == {0, 1, 4}
MaxDelayOptions == {0, 2, 8}

\* mutant: WithMaxAttempts takes every n
WithMaxAttempts_Any(n) == n

WithMaxAttempts(n) == IF n > 0 THEN n ELSE defaultMaxAttempts

RECURSIVE Pow2(_)
Pow2(n) == IF n = 0 THEN 1 ELSE 2 * Pow2(n - 1)

Abs(x) == IF x < 0 THEN 0 - x ELSE x

\* time.Duration is an int64; the model keeps the two's complement
\* arithmetic with DurationBits bits in place of 64
DurationBits == 6
MaxDuration == Pow2(DurationBits - 1) - 1
MinDuration == 0 - Pow2(DurationBits - 1)

\* the int64 that a sum or product x comes to
Wrap(x) == ((x - MinDuration) % Pow2(DurationBits)) + MinDuration

\* what time.Duration(math.Pow(2, float64(attempt))) can be: the power when
\* an int64 holds it; beyond that the conversion from float64 is left to the
\* implementation, which gives the least or the greatest int64
powDuration(attempt) ==
  IF attempt < DurationBits - 1 THEN {Pow2(attempt)} ELSE {MinDuration, MaxDuration}

\* what the jitter can add to a delay: up to a quarter of it, either way
Jitters(d) == {j \in (0 - Abs(d))..Abs(d) : 4 * Abs(j) <= Abs(d)}

\* the delay of the strategy, before jitter and cap; p is the power of two
\* as converted
baseDelay(cfg, attempt, p) ==
  CASE cfg.strategy = StrategyConstant -> cfg.delay
    [] cfg.strategy = StrategyLinear -> Wrap(cfg.delay * Wrap(attempt + 1))
    [] OTHER -> Wrap(cfg.delay * p)

\* computeDelay(cfg, attempt), the jitter being j
computeDelay(cfg, attempt, p, j) ==
  LET d0 == baseDelay(cfg, attempt, p)
      d1 == IF cfg.jitter THEN Wrap(d0 + j) ELSE d0
      d2 == IF d1 > cfg.maxDelay THEN cfg.maxDelay ELSE d1
  IN IF d2 < 0 THEN 0 ELSE d2

\* rt.cfg is Do's config and rt.n the argument of WithMaxAttempts; rt.pc is
\* where Do stands: "call" before fn is invoked for the attempt rt.attempt,
\* "select" when time.After has been evaluated and the select not yet
\* polled, "wait" blocked in the select, "done" returned; rt.timer is what
\* remains of the delay; rt.cancelled says that ctx is done and
\* rt.cancelledIn where Do stood when it became so; rt.lastErr and rt.ret
\* number the errors by the invocation that returned them (0: nil, -1:
\* ctx.Err()).  History: rt.calls counts the invocations of fn, rt.waits the
\* selects.
InitRetry ==
  /\ InitCache({0})
  /\ policy = PolicyNone
  /\ ttl = 0
  /\ calls = [c \in Callers |-> Idle]
  /\ inflight = [k \in Keys |-> 0]
  /\ mu = [w |-> 0, r |-> {}]
  /\ cb = NotBuilt
  /\ pool = NotBuilt
  /\ ic = NotBuilt
  /\ \E n \in MaxAttemptsOptions, d \in DelayOptions, md \in MaxDelayOptions,
        st \in Strategies, jt \in BOOLEAN :
       rt = [cfg |-> [maxAttempts |-> WithMaxAttempts(n), delay |-> d, maxDelay |-> md,
                      strategy |-> st, jitter |-> jt],
             n |-> n, pc |-> "call", attempt |-> 0, timer |-> 0,
             cancelled |-> FALSE, cancelledIn |-> "none",
             lastErr |-> 0, ret |-> 0, calls |-> 0, waits |-> 0]

RetryOnly == UNCHANGED <<cacheVars, histVars, sfVars, mu, cb, pool, ic>>

\* one turn of Do's loop up to the select: fn is invoked and returns an error
\* (failed) or nil
DoAttempt(failed) ==
  /\ rt.pc = "call"
  /\ IF ~failed
       THEN rt' = [rt EXCEPT !.calls = @ + 1, !.lastErr = 0, !.ret = 0, !.pc = "done"]
     ELSE IF rt.attempt = rt.cfg.maxAttempts - 1
       THEN rt' = [rt EXCEPT !.calls = @ + 1, !.lastErr = rt.calls + 1,
                             !.ret = rt.calls + 1, !.pc = "done"]
     ELSE \E p \in powDuration(rt.attempt) :
          \E j \in Jitters(baseDelay(rt.cfg, rt.attempt, p)) :
            rt' = [rt EXCEPT !.calls = @ + 1, !.lastErr = rt.calls + 1,
                             !.timer = computeDelay(rt.cfg, rt.attempt, p, j),
                             !.waits = @ + 1, !.pc = "select"]
  /\ RetryOnly

\* the cases of the select that can proceed
selectReady(r) ==
  (IF r.cancelled THEN {"ctx"} ELSE {}) \cup (IF r.timer = 0 THEN {"timer"} ELSE {})

\* what Do does when the select takes the case ch
selected(r, ch) ==
  IF ch = "ctx" THEN [r EXCEPT !.ret = -1, !.pc = "done"]
  ELSE [r EXCEPT !.attempt = @ + 1, !.pc = "call"]

\* the select is polled: one of the cases that can proceed is taken, any of
\* them; with none Do blocks
DoSelect ==
  /\ rt.pc = "select"
  /\ IF selectReady(rt) = {}
       THEN rt' = [rt EXCEPT !.pc = "wait"]
       ELSE \E ch \in selectReady(rt) : rt' = selected(rt, ch)
  /\ RetryOnly

\* ctx is cancelled; a Do blocked in the select takes the case of ctx.Done()
RetryCancel ==
  /\ rt.pc # "done"
  /\ ~rt.cancelled
  /\ \E r \in {[rt EXCEPT !.cancelled = TRUE, !.cancelledIn = rt.pc]} :
       rt' = IF rt.pc = "wait" THEN selected(r, "ctx") ELSE r
  /\ RetryOnly

\* time passes; when the delay is over a Do blocked in the select takes the
\* case of the timer
RetryTick ==
  /\ rt.pc \in {"select", "wait"}
  /\ rt.timer > 0
  /\ \E r \in {[rt EXCEPT !.timer = @ - 1]} :
       rt' = IF rt.pc = "wait" /\ r.timer = 0 THEN selected(r, "timer") ELSE r
  /\ RetryOnly

NextRetry ==
  \/ \E failed \in BOOLEAN : DoAttempt(failed)
  \/ DoSelect
  \/ RetryCancel
  \/ RetryTick

\* fn returns, the goroutine of Do is scheduled and time passes
SpecRetry ==
  /\ InitRetry
  /\ [][NextRetry]_vars
  /\ WF_vars(\E failed \in BOOLEAN : DoAttempt(failed))
  /\ WF_vars(DoSelect)
  /\ WF_vars(RetryTick)

\* computeDelay by itself: a config with any base delay and cap that a
\* Duration holds and are not negative, and an attempt number
DelayAttempts == 0..(DurationBits + 1)
Durations == 0..MaxDuration

InitDelay ==
  /\ InitCache({0})
  /\ policy = PolicyNone
  /\ ttl = 0
  /\ calls = [c \in Callers |-> Idle]
  /\ inflight = [k \in Keys |-> 0]
  /\ mu = [w |-> 0, r |-> {}]
  /\ cb = NotBuilt
  /\ pool = NotBuilt
  /\ ic = NotBuilt
  /\ \E d \in Durations, md \in Durations, st \in Strategies, jt \in BOOLEAN,
        a \in DelayAttempts :
       rt = [cfg |-> [maxAttempts |-> a + 2, delay |-> d, maxDelay |-> md,
                      strategy |-> st, jitter |-> jt],
             attempt |-> a, pc |-> "call", delay |-> 0]

\* delay := computeDelay(cfg, attempt)
ComputeDelay ==
  /\ rt.pc = "call"
  /\ \E p \in powDuration(rt.attempt) :
       \E j \in Jitters(baseDelay(rt.cfg, rt.attempt, p)) :
         rt' = [rt EXCEPT !.pc = "computed",
                          !.delay = computeDelay(rt.cfg, rt.attempt, p, j)]
  /\ RetryOnly

NextDelay == ComputeDelay

SpecDelay == InitDelay /\ [][NextDelay]_vars

\* ------------------------------------------------------------ worker pool
Workers == 1..MaxWorkers
Tasks == 1..NumTasks

\* the arguments given to WithWorkers and WithBufferSize
WorkersOptions == 0..MaxWorkers
BufferSizeOptions == {0, 1, 2}

\* runtime.NumCPU()
NumCPUs == 1..MaxWorkers

WithWorkers(n, cpus) == IF n > 0 THEN n ELSE cpus

WithBufferSize(n, workers) == IF n > 0 THEN n ELSE workers

\* pool.tasks is the buffer of the channel, pool.cap its size and
\* pool.closed whether it is closed; pool.wg counts the workers that have not
\* returned; pool.cancelled says that the workers' context is done;
\* pool.wk[w] is where worker w stands ("range" receiving, "select" at the
\* test of the context, "default" about to call the handler, "handler" in
\* it, "exited"; "none" if the pool has no such worker) and with which task;
\* pool.client is the goroutine that submits and shuts down; pool.panic says
\* that a closed channel was closed again.  History: pool.submitted,
\* pool.started and pool.finished count per task, pool.late counts per
\* worker the handler invocations started after the cancellation,
\* pool.queued holds the tasks that were in the buffer at the cancellation
\* and pool.shutdowns counts the returns of Shutdown.
InitPool ==
  /\ InitCache({0})
  /\ policy = PolicyNone
  /\ ttl = 0
  /\ calls = [c \in Callers |-> Idle]
  /\ inflight = [k \in Keys |-> 0]
  /\ mu = [w |-> 0, r |-> {}]
  /\ cb = NotBuilt
  /\ rt = NotBuilt
  /\ ic = NotBuilt
  /\ \E n \in WorkersOptions, cpus \in NumCPUs, b \in BufferSizeOptions :
       pool = [built |-> TRUE,
               workers |-> WithWorkers(n, cpus),
               cap |-> WithBufferSize(b, WithWorkers(n, cpus)),
               tasks |-> <<>>, closed |-> FALSE, once |-> FALSE,
               wg |-> WithWorkers(n, cpus),
               cancelled |-> FALSE, panic |-> FALSE,
               wk |-> [w \in Workers |->
                        [pc |-> IF w <= WithWorkers(n, cpus) THEN "range" ELSE "none",
                         task |-> 0]],
               client |-> [pc |-> "idle", task |-> 0],
               submitted |-> [t \in Tasks |-> 0],
               started |-> [t \in Tasks |-> 0],
               finished |-> [t \in Tasks |-> 0],
               late |-> [w \in Workers |-> 0],
               queued |-> {},
               shutdowns |-> 0]

PoolOnly == UNCHANGED <<cacheVars, histVars, sfVars, mu, cb, rt, ic>>

SeqToSet(q) == {q[i] : i \in 1..Len(q)}

\* the context is cancelled
cancelCtx(p) ==
  IF p.cancelled THEN p
  ELSE [p EXCEPT !.cancelled = TRUE, !.queued = SeqToSet(p.tasks)]

\* close(p.tasks): closing a closed channel panics
closeTasks(p) ==
  IF p.closed THEN [p EXCEPT !.panic = TRUE] ELSE [p EXCEPT !.closed = TRUE]

\* mutant: Shutdown closes the channel at every call
onceDo_EveryTime(p) == closeTasks(p)

\* p.once.Do(func() { close(p.tasks) })
onceDo(p) ==
  IF p.once THEN p ELSE closeTasks([p EXCEPT !.once = TRUE])

\* mutant: the worker does not look at the context
ctxDone_Ignored(p) == FALSE

\* case <-ctx.Done() of the worker's select can proceed
ctxDone(p) == p.cancelled

\* Submit is called with the next task
SubmitCall(t) ==
  /\ pool.client.pc = "idle"
  /\ ~pool.closed
  /\ pool.submitted[t] = 0
  /\ \A u \in Tasks : u < t => pool.submitted[u] = 1
  /\ pool' = [pool EXCEPT !.client = [pc |-> "send", task |-> t]]
  /\ PoolOnly

\* p.tasks <- task proceeds when the buffer has room
SubmitSend ==
  /\ pool.client.pc = "send"
  /\ Len(pool.tasks) < pool.cap
  /\ pool' = [pool EXCEPT !.tasks = Append(@, pool.client.task),
                           !.submitted[pool.client.task] = 1,
                           !.client = [pc |-> "idle", task |-> 0]]
  /\ PoolOnly

\* Shutdown up to wg.Wait()
ShutdownCall ==
  /\ pool.client.pc = "idle"
  /\ pool.shutdowns < MaxShutdowns
  /\ pool' = [onceDo(pool) EXCEPT !.client = [pc |-> "wait", task |-> 0]]
  /\ PoolOnly

\* wg.Wait() returns when every worker has returned; then p.cancel()
ShutdownReturn ==
  /\ pool.client.pc = "wait"
  /\ pool.wg = 0
  /\ pool' = [cancelCtx(pool) EXCEPT !.client = [pc |-> "idle", task |-> 0],
                                      !.shutdowns = @ + 1]
  /\ PoolOnly

\* the context given to New is cancelled
PoolCancel ==
  /\ ~pool.cancelled
  /\ pool' = cancelCtx(pool)
  /\ PoolOnly

\* for task := range p.tasks: a task is received, or the channel is closed
\* and empty and the worker returns
workerRange(w) ==
  /\ pool.wk[w].pc = "range"
  /\ IF pool.tasks # <<>>
       THEN pool' = [pool EXCEPT !.tasks = Tail(@),
                                 !.wk[w] = [pc |-> "select", task |-> Head(pool.tasks)]]
       ELSE /\ pool.closed
            /\ pool' = [pool EXCEPT !.wk[w] = [pc |-> "exited", task |-> 0],
                                     !.wg = @ - 1]
  /\ PoolOnly

\* select { case <-ctx.Done(): return; default: ... }
workerSelect(w) ==
  /\ pool.wk[w].pc = "select"
  /\ IF ctxDone(pool)
       THEN pool' = [pool EXCEPT !.wk[w] = [pc |-> "exited", task |-> 0],
                                 !.wg = @ - 1]
       ELSE pool' = [pool EXCEPT !.wk[w].pc = "default"]
  /\ PoolOnly

\* p.handler(ctx, task) is called
handlerStart(w) ==
  /\ pool.wk[w].pc = "default"
  /\ pool' = [pool EXCEPT !.wk[w].pc = "handler",
                           !.started[pool.wk[w].task] = @ + 1,
                           !.late[w] = IF pool.cancelled THEN @ + 1 ELSE @]
  /\ PoolOnly

\* the handler returns
handlerEnd(w) ==
  /\ pool.wk[w].pc = "handler"
  /\ pool' = [pool EXCEPT !.wk[w] = [pc |-> "range", task |-> 0],
                           !.finished[pool.wk[w].task] = @ + 1]
  /\ PoolOnly

worker(w) ==
  \/ workerRange(w)
  \/ workerSelect(w)
  \/ handlerStart(w)
  \/ handlerEnd(w)

NextPool ==
  \/ \E t \in Tasks : SubmitCall(t)
  \/ SubmitSend
  \/ ShutdownCall
  \/ ShutdownReturn
  \/ \E w \in Workers : worker(w)

\* the context is never cancelled from outside; the workers and the client
\* inside a call are scheduled and handlers return
SpecPool ==
  /\ InitPool
  /\ [][NextPool]_vars
  /\ \A w \in Workers : WF_vars(worker(w))
  /\ WF_vars(SubmitSend)
  /\ WF_vars(ShutdownReturn)

NextPoolCancel ==
  \/ NextPool
  \/ PoolCancel

SpecPoolCancel == InitPool /\ [][NextPoolCancel]_vars

\* the same with the scheduling of SpecPool: the context may be cancelled at
\* any moment, or never
SpecPoolCancelFair ==
  /\ InitPool
  /\ [][NextPoolCancel]_vars
  /\ \A w \in Workers : WF_vars(worker(w))
  /\ WF_vars(SubmitSend)
  /\ WF_vars(ShutdownReturn)

\* ------------------------------------------------------------ instrumented cache
\* ic.size is the size gauge and ic.counted the counter that the last
\* wrapper call incremented; the inner cache is this module's cache.
InitInstrumented ==
  /\ InitCache({1})
  /\ calls = [c \in Callers |-> Idle]
  /\ inflight = [k \in Keys |-> 0]
  /\ mu = [w |-> 0, r |-> {}]
  /\ cb = NotBuilt
  /\ rt = NotBuilt
  /\ pool = NotBuilt
  /\ ic = [built |-> TRUE, size |-> CacheLen, counted |-> "none"]

InstrumentedOnly == UNCHANGED <<sfVars, mu, cb, rt, pool>>

\* ic.Get(key)
InstrumentedGet(key) ==
  /\ CacheGet(key)
  /\ ic' = [ic EXCEPT !.counted = IF last'.ok THEN "hits" ELSE "misses"]
  /\ InstrumentedOnly

\* ic.Set(key, value)
InstrumentedSet(key, value) ==
  /\ CacheSet(key, value)
  /\ ic' = [ic EXCEPT !.counted = "sets", !.size = CacheLen']
  /\ InstrumentedOnly

\* ic.Delete(key)
InstrumentedDelete(key) ==
  /\ CacheDelete(key)
  /\ ic' = [ic EXCEPT !.counted = "deletes", !.size = CacheLen']
  /\ InstrumentedOnly

\* ic.Clear()
InstrumentedClear ==
  /\ CacheClear
  /\ ic' = [ic EXCEPT !.counted = "none", !.size = 0]
  /\ InstrumentedOnly

NextInstrumented ==
  \/ \E k \in Keys : InstrumentedGet(k)
  \/ \E k \in Keys, v \in Values : InstrumentedSet(k, v)
  \/ \E k \in Keys : InstrumentedDelete(k)
  \/ InstrumentedClear
  \/ Tick

SpecInstrumented == InitInstrumented /\ [][NextInstrumented]_vars

\* ------------------------------------------------------------ steps
\* Which operation a step is: every operation leaves its name and arguments in
\* last' and marks it fresh; Tick marks it stale, and the steps of GetOrSet
\* that are no cache operation reset it.
SetCall(key, value) ==
  last'.fresh /\ last'.op = "Set" /\ last'.key = key /\ last'.val = value

GetCall(key) == last'.fresh /\ last'.op = "Get" /\ last'.key = key

DeleteCall(key) == last'.fresh /\ last'.op = "Delete" /\ last'.key = key

ClearCall == last'.fresh /\ last'.op = "Clear"

SetStep == last'.fresh /\ last'.op = "Set"

\* a Set that inserts a new key into a cache that is at capacity
AtCapacity == capacity > 0 /\ CacheLen >= capacity

InsertAtCapacity == SetStep /\ items[last'.key] = NoEntry /\ AtCapacity

\* ------------------------------------------------------------ claims

\* C1: under every policy other than None and every capacity c > 0, the number
\* of live entries is at most c in every reachable state, and also inside a Set:
\* the largest len(c.items) a Set passes through (last.peak) is at most c,
\* because the eviction precedes the insertion.
C1_CapacityBound ==
  (policy # PolicyNone /\ capacity > 0) =>
    (CacheLen <= capacity /\ last.peak <= capacity)

\* a Set has evicted an entry of a full cache and the cache is full again
C1_Witness ==
  /\ policy # PolicyNone
  /\ capacity > 0
  /\ last.op = "Set"
  /\ last.removed # {}
  /\ CacheLen = capacity

\* C2: under LRU and FIFO the keys of the entry store are the keys of the
\* recency list, each once; under LFU and TTL they are the keys of the heap,
\* each once, and every live entry's index is the heap position that holds it.
C2_StructuresAgree ==
  /\ policy \in {PolicyLRU, PolicyFIFO} =>
       /\ Range(evictList) = Live(items)
       /\ Len(evictList) = Cardinality(Live(items))
  /\ policy \in {PolicyLFU, PolicyTTL} =>
       /\ Range(pq) = Live(items)
       /\ Len(pq) = Cardinality(Live(items))
       /\ \A k \in Live(items) :
            /\ items[k].index \in 0..(Len(pq) - 1)
            /\ pq[items[k].index + 1] = k

\* a heap of two entries left by a Set that evicted the root of a full heap
C2_Witness ==
  /\ policy \in {PolicyLFU, PolicyTTL}
  /\ last.op = "Set"
  /\ last.removed # {}
  /\ Len(pq) = 2

\* the callers that are running the loader for key k
Loading(k) == {c \in Callers : calls[c].pc = "load" /\ calls[c].key = k}

\* the callers that have joined the load of caller l and wait for it
Joined(l) == {d \in Callers : calls[d].pc = "wait" /\ calls[d].leader = l}

\* a caller that waits has joined the load in flight for its key, which has not
\* completed, and has not run the loader itself
WaitsForFlight(d) ==
  calls[d].pc = "wait" =>
    /\ calls[d].leader \in Callers \ {d}
    /\ inflight[calls[d].key] = calls[d].leader
    /\ calls[calls[d].leader].key = calls[d].key
    /\ calls[calls[d].leader].pc \in {"load", "store", "retire"}
    /\ calls[d].loads = 0

\* the step that completes the load of caller l: l ran the loader exactly
\* once, and every caller that joined returns what the loader returned without
\* having run it
Completes(l) ==
  (calls[l].pc = "retire" /\ calls'[l].pc = "return") =>
    /\ calls[l].loads = 1
    /\ calls'[l].val = calls[l].val /\ calls'[l].err = calls[l].err
    /\ \A d \in Joined(l) :
         /\ calls'[d].pc = "return"
         /\ calls'[d].val = calls[l].val /\ calls'[d].err = calls[l].err
         /\ calls'[d].loads = 0

Evicts(v) == last'.removed = {v} /\ Live(items') = (Live(items) \ {v}) \cup {last'.key}

\* C4: under LRU the list is the live keys in the order of their most recent
\* successful Get or Set (useOrder, kept by the operations' history), most recent
\* first, and a Set that inserts a new key at capacity evicts the last of them.
C4_LRUVictim ==
  [][policy = PolicyLRU =>
       /\ evictList' = useOrder'
       /\ InsertAtCapacity => Evicts(useOrder[Len(useOrder)])]_vars

\* LRU: a Set has evicted a key that was inserted after a key that is still live
C4_Witness ==
  /\ policy = PolicyLRU
  /\ last.op = "Set"
  /\ \E v \in last.removed : v = "b"
  /\ items["a"] # NoEntry
  /\ items["a"].frequency = 2
  /\ last.key = "c"

\* C5: under FIFO the list is the live keys in the order of their insertion
\* (insOrder, which no Get and no update changes), newest first, and a Set that
\* inserts a new key at capacity evicts the one inserted earliest.
C5_FIFOVictim ==
  [][policy = PolicyFIFO =>
       /\ evictList' = insOrder'
       /\ InsertAtCapacity => Evicts(insOrder[Len(insOrder)])]_vars

\* FIFO: the Set of a third key has evicted the key that was inserted first
C5_Witness ==
  /\ policy = PolicyFIFO
  /\ capacity = 2
  /\ last.op = "Set"
  /\ last.removed = {"a"}
  /\ last.key = "c"
  /\ items["b"] # NoEntry
  /\ items["b"].frequency = 1

\* (frequency, accessTime) of v is no larger than that of k
LFUBefore(its, v, k) ==
  \/ its[v].frequency < its[k].frequency
  \/ its[v].frequency = its[k].frequency /\ its[v].accessTime <= its[k].accessTime

\* C6: under LFU a Set that inserts a new key at capacity evicts one entry, whose
\* frequency is the minimum over the live entries and whose recorded access
\* time is the minimum over the live entries of that frequency.
C6_LFUVictim ==
  [][(policy = PolicyLFU /\ InsertAtCapacity) =>
       \E v \in Live(items) :
         /\ Evicts(v)
         /\ \A k \in Live(items) : LFUBefore(items, v, k)]_vars

\* LFU: the key inserted first survives, the one used less often is evicted
C6_Witness ==
  /\ policy = PolicyLFU
  /\ capacity = 2
  /\ last.op = "Set"
  /\ last.key = "c"
  /\ last.removed = {"b"}
  /\ items["a"] # NoEntry
  /\ items["a"].frequency = 2

\* an expiration as the TTL order reads it: 0 (none) is after every instant
ExpRank(e) == IF e.expiration = 0 THEN MaxTime + 3 ELSE e.expiration

\* C7: under TTL a Set that inserts a new key at capacity evicts one entry, whose
\* expiration is the smallest of the live entries', an entry without expiration
\* counting as later than every entry with one.
C7_TTLVictim ==
  [][(policy = PolicyTTL /\ InsertAtCapacity) =>
       \E v \in Live(items) :
         /\ Evicts(v)
         /\ \A k \in Live(items) : ExpRank(items[v]) <= ExpRank(items[k])]_vars

\* TTL: of two entries with different expirations the earlier one was evicted
C7_Witness ==
  /\ policy = PolicyTTL
  /\ capacity = 2
  /\ ttl > 0
  /\ last.op = "Set"
  /\ last.key = "c"
  /\ last.removed = {"a"}
  /\ items["b"] # NoEntry
  /\ items["b"].expiration = 2
  /\ items["c"].expiration = 3

\* the entry of k has been taken out of the store and of the policy's structure
Gone(k) == items'[k] = NoEntry /\ k \notin (Range(pq') \cup Range(evictList'))

\* what a Get of a live key k does once the instant `exp` has passed, and before
GetExpires(k, exp) ==
  IF exp > 0 /\ now > exp
    THEN ~last'.ok /\ Gone(k)
    ELSE last'.ok /\ last'.ret = items[k].value /\ items'[k] # NoEntry

\* a live entry disappears only in a Get of its key, a Delete of its key, a
\* Clear or an eviction by a Set; until then len(c.items) counts it
OnlyTouchRemoves ==
  \A k \in Live(items) :
    items'[k] = NoEntry =>
      \/ GetCall(k)
      \/ DeleteCall(k)
      \/ ClearCall
      \/ SetStep /\ k \in last'.removed

\* C8 as stated, for every policy with a default TTL: a Get of a live key after
\* the instant of its last Set plus the TTL misses and removes the entry, a Get
\* before is a hit, and nothing else than a Get, an eviction, a Delete or a
\* Clear removes the entry.
C8_AnyPolicy ==
  [][/\ \A k \in Live(items) : (ttl > 0 /\ GetCall(k)) => GetExpires(k, deadline[k])
     /\ OnlyTouchRemoves]_vars

\* C8, amended: the same for every policy other than None, where the instant is
\* the entry's expiration; under None no entry has an expiration and a Get of a
\* live key is a hit at every instant.
C8_LazyExpiry ==
  [][/\ \A k \in Live(items) :
          GetCall(k) =>
            /\ policy # PolicyNone =>
                 /\ items[k].expiration = deadline[k]
                 /\ GetExpires(k, deadline[k])
            /\ policy = PolicyNone => GetExpires(k, 0)
     /\ OnlyTouchRemoves]_vars

\* a Get has found its key expired and removed it from a cache below capacity,
\* after the expired entry had been counted
C8_Witness ==
  /\ policy # PolicyNone
  /\ ttl > 0
  /\ capacity = 0
  /\ last.op = "Get"
  /\ ~last.ok
  /\ last.removed = {last.key}
  /\ last.peak = 1

\* C9 as stated: a Set of a present key replaces the value in place, keeps the
\* set of live keys, evicts nothing, and the next Get of the key returns the new
\* value.
C9_UpdateThenGet ==
  [][/\ \A in \in SetInputs :
          (SetCall(in[1], in[2]) /\ items[in[1]] # NoEntry) =>
            /\ Live(items') = Live(items)
            /\ last'.removed = {}
            /\ last'.peak = CacheLen
            /\ items'[in[1]].value = in[2]
     /\ \A k \in Keys :
          (GetCall(k) /\ last.op = "Set" /\ last.key = k /\ last.ok) =>
            (last'.ok /\ last'.ret = last.val)]_vars

\* C9, amended: the next Get of the key returns the new value unless the entry
\* has expired by then.
C9_Update ==
  [][/\ \A in \in SetInputs :
          (SetCall(in[1], in[2]) /\ items[in[1]] # NoEntry) =>
            /\ Live(items') = Live(items)
            /\ last'.removed = {}
            /\ last'.peak = CacheLen
            /\ items'[in[1]].value = in[2]
     /\ \A k \in Keys :
          (GetCall(k) /\ last.op = "Set" /\ last.key = k /\ last.ok
             /\ ~isExpired(items[k], now)) =>
            (last'.ok /\ last'.ret = last.val)]_vars

\* a full cache after an update that changed the value, read back by a Get
C9_Witness ==
  /\ policy # PolicyNone
  /\ capacity = 1
  /\ last.op = "Get"
  /\ last.key = "a"
  /\ last.ok
  /\ last.ret = 1
  /\ items["a"].frequency = 3

\* C10: after Set(k, v) the key is live with value v and was not evicted by its
\* own insertion, and a Get(k) that is the next operation, the entry not
\* expired, returns (v, true): for every policy, capacity and value.
C10_SetThenGet ==
  [][/\ \A in \in SetInputs :
          SetCall(in[1], in[2]) =>
            /\ items'[in[1]] # NoEntry
            /\ items'[in[1]].value = in[2]
            /\ in[1] \notin last'.removed
     /\ \A k \in Keys :
          (GetCall(k) /\ last.op = "Set" /\ last.key = k /\ ~isExpired(items[k], now)) =>
            (last'.ok /\ last'.ret = last.val)]_vars

\* capacity 1: a Get returns the zero value of a key whose insertion evicted
\* the only other entry
C10_Witness ==
  /\ capacity = 1
  /\ last.op = "Get"
  /\ last.key = "c"
  /\ last.ok
  /\ last.ret = 0
  /\ items["c"].frequency = 2
  /\ items["a"] = NoEntry

\* the fields of an entry that the callers' operations write (index is its place
\* in the heap, kept by Swap)
Fields(e) ==
  [value |-> e.value, accessTime |-> e.accessTime, frequency |-> e.frequency,
   expiration |-> e.expiration]

\* every entry but that of k is as it was
OthersKept(k) ==
  \A j \in Keys \ {k} :
    IF items[j] = NoEntry THEN items'[j] = NoEntry
    ELSE items'[j] # NoEntry /\ Fields(items'[j]) = Fields(items[j])

\* the order in which evict would remove the entries of C, first victim first
RECURSIVE EvictionOrder(_)
EvictionOrder(C) ==
  IF policy = PolicyNone \/ Live(C.items) = {} THEN <<>>
  ELSE LET c1 == evict(C)
           v == CHOOSE k \in Live(C.items) : c1.items[k] = NoEntry
       IN <<v>> \o EvictionOrder(c1)

Constructed == [items |-> [k \in Keys |-> NoEntry], pq |-> <<>>, evictList |-> <<>>]

\* C12: a cache starts in the state Constructed; after Clear, Len is 0 and the
\* cache is in that state again, with its policy, capacity and TTL, so the operations that follow go as
\* they would on a newly constructed cache: every operation is a function of
\* that state, its arguments and the clock.
C12_ClearIsNew ==
  /\ Cur = Constructed
  /\ [][ClearCall =>
          /\ len(Cur') = 0
          /\ Cur' = Constructed
          /\ UNCHANGED <<policy, capacity, ttl>>]_vars

\* a Clear has emptied a heap of three entries
C12_Witness ==
  /\ policy \in {PolicyLFU, PolicyTTL}
  /\ last.op = "Clear"
  /\ last.peak = 3
  /\ Cur = Constructed

\* C13: under PolicyNone, whatever the capacity and the TTL, a Set adds its key
\* and removes none, a Get changes nothing and finds every key that is there,
\* however long ago it was set, and only Delete(k) removes k and only Clear
\* removes the rest: the live keys are those set and not since deleted or
\* cleared.
C13_NoneKeepsAll ==
  [][policy = PolicyNone =>
       /\ \A k \in Keys :
            /\ (SetStep /\ last'.key = k) =>
                 /\ Live(items') = Live(items) \cup {k}
                 /\ last'.removed = {}
            /\ GetCall(k) =>
                 /\ items' = items
                 /\ last'.ok = (items[k] # NoEntry)
                 /\ last'.ok => last'.ret = items[k].value
            /\ DeleteCall(k) => Live(items') = Live(items) \ {k}
       /\ ClearCall => Live(items') = {}
       /\ ~last'.fresh => items' = items]_vars

\* under PolicyNone with capacity 1 and a TTL, three keys are live and a Get has
\* found one after its TTL had passed
C13_Witness ==
  /\ policy = PolicyNone
  /\ capacity = 1
  /\ ttl > 0
  /\ CacheLen = 3
  /\ last.op = "Get"
  /\ last.ok
  /\ deadline[last.key] > 0
  /\ now > deadline[last.key]

\* the step in which caller c looks its key up
Looks(c) == calls[c].pc = "check" /\ calls'[c].pc # "check"

\* key k is in the cache and its TTL, if it has one, has not ended
Unexpired(k) == items[k] # NoEntry /\ (deadline[k] = 0 \/ now <= deadline[k])

\* C14: a GetOrSet that finds its key present and unexpired when it looks it up
\* returns the cached value and no error, without running the loader and
\* without registering a load.
C14_HitSkipsLoader ==
  [][\A c \in Callers :
       (Looks(c) /\ Unexpired(calls[c].key)) =>
         /\ calls'[c].pc = "return"
         /\ calls'[c].val = items[calls[c].key].value
         /\ ~calls'[c].err
         /\ calls'[c].loads = 0
         /\ calls'[c].leader = 0
         /\ inflight' = inflight]_vars

\* a caller has returned a value that another caller had loaded and stored,
\* at the last instant of the entry's TTL
C14_Witness ==
  \E c \in Callers :
    /\ calls[c].pc = "return"
    /\ calls[c].loads = 0 /\ calls[c].leader = 0
    /\ calls[c].val = 1 /\ ~calls[c].err
    /\ last.op = "Get" /\ last.ok
    /\ now = deadline[last.key]

\* caller l has run the loader, which failed, and has not retired its record
Failed(l) == calls[l].pc = "retire" /\ calls[l].err

\* C15: when the loader fails, the call never reaches its Set; while the record
\* of the failed load stands, the key, if it was absent, stays absent; and the
\* step that retires the record writes nothing to the cache and hands the
\* error, with the zero value, to the loading caller and to every caller that
\* joined the load.
C15_ErrorNotCached ==
  /\ [](\A c \in Callers : calls[c].pc = "store" => ~calls[c].err)
  /\ [][\A l \in Callers :
          /\ (calls[l].pc = "load" /\ calls'[l].pc # "load" /\ calls'[l].err) =>
               /\ calls'[l].pc = "retire"
               /\ UNCHANGED <<items, pq, evictList>>
          /\ (Failed(l) /\ items[calls[l].key] = NoEntry) =>
               items'[calls[l].key] = NoEntry
          /\ (Failed(l) /\ calls'[l].pc = "return") =>
               /\ UNCHANGED <<items, pq, evictList>>
               /\ len(Cur') = CacheLen
               /\ calls'[l].err /\ calls'[l].val = 0
               /\ \A d \in Joined(l) :
                    /\ calls'[d].pc = "return"
                    /\ calls'[d].err /\ calls'[d].val = 0]_vars

\* a loader has failed: the loading caller and the two that joined it have
\* returned the error, and the cache is empty
C15_Witness ==
  \E l \in Callers :
    /\ calls[l].pc = "return" /\ calls[l].loads = 1 /\ calls[l].err
    /\ \A d \in Callers \ {l} :
         calls[d].pc = "return" /\ calls[d].leader = l /\ calls[d].err
    /\ CacheLen = 0

\* caller l has stored what it loaded and has not retired its record
Stored(l) == calls[l].pc = "retire" /\ ~calls[l].err

\* the step removes key k from the cache on request, by eviction or by expiry
Removes(k) ==
  /\ last'.fresh
  /\ \/ last'.op = "Delete" /\ last'.key = k
     \/ last'.op = "Set" /\ k \in last'.removed
     \/ last'.op = "Get" /\ k \in last'.removed /\ now > deadline[k]

\* C16: a successful load goes to its Set before its record is retired; that
\* Set is Cache.Set of the key and the loaded value, evicting at capacity;
\* until the callers receive the value, the key leaves the cache only by a
\* Delete, an eviction or an expiry; and at the step that hands the value to
\* the loading caller and to those that joined, a Get of the key, if the key
\* is still there and unexpired, returns that value.
C16_StoredBeforeReturned ==
  [][\A l \in Callers :
       /\ (calls[l].pc = "load" /\ calls'[l].pc # "load" /\ ~calls'[l].err) =>
            calls'[l].pc = "store"
       /\ (calls[l].pc = "store" /\ calls'[l].pc # "store") =>
            /\ Cur' = setResult(Cur, calls[l].key, calls[l].val, now).c
            /\ items'[calls[l].key] # NoEntry
            /\ items'[calls[l].key].value = calls[l].val
            /\ len(Cur') <= capacity
            /\ Stored(l)'
       /\ (Stored(l) /\ items[calls[l].key] # NoEntry /\ items'[calls[l].key] = NoEntry) =>
            Removes(calls[l].key)
       /\ (Stored(l) /\ calls'[l].pc = "return") =>
            /\ calls'[l].val = calls[l].val /\ ~calls'[l].err
            /\ \A d \in Joined(l) :
                 calls'[d].pc = "return" /\ calls'[d].val = calls[l].val /\ ~calls'[d].err
            /\ Unexpired(calls[l].key) =>
                 LET g == getResult(Cur', calls[l].key, now', now')
                 IN g.ok /\ g.ret = calls[l].val]_vars

\* a loaded value was stored in a cache of capacity 1, evicting the other key,
\* and the loading caller and one that joined have returned it while it is
\* still cached
C16_Witness ==
  \E l \in Callers, d \in Callers :
    /\ calls[l].pc = "return" /\ calls[l].loads = 1 /\ ~calls[l].err
    /\ calls[d].pc = "return" /\ calls[d].leader = l /\ calls[d].val = calls[l].val
    /\ capacity = 1
    /\ items["b"] # NoEntry /\ items["b"].value = calls[l].val
    /\ useOrder = <<"b">>

\* the load that caller d waits for has completed: its loader has returned
LoadDone(d) ==
  /\ calls[d].pc = "wait"
  /\ calls[calls[d].leader].pc \in {"store", "retire"}

\* C17: the registry holds a record for a key only while that key's load is in
\* progress; the step that completes a load removes the record; a caller that
\* finds no record for its key becomes the caller that loads it, with none of
\* a finished load's result; and every caller that waits for a load whose
\* loader has returned is eventually released.
C17_RecordRetired ==
  /\ [](\A k \in Keys :
          inflight[k] # 0 =>
            /\ calls[inflight[k]].key = k
            /\ calls[inflight[k]].pc \in {"load", "store", "retire"})
  /\ [][\A c \in Callers :
          /\ (calls[c].pc = "retire" /\ calls'[c].pc = "return") =>
               inflight'[calls[c].key] = 0
          /\ (calls[c].pc = "register" /\ calls'[c].pc # "register"
                 /\ inflight[calls[c].key] = 0) =>
               /\ calls'[c].pc = "load"
               /\ inflight'[calls[c].key] = c
               /\ calls'[c].loads = 0 /\ calls'[c].val = 0 /\ ~calls'[c].err
          /\ (calls[c].pc = "load" /\ calls'[c].pc # "load") =>
               calls'[c].loads = 1]_vars
  /\ \A d \in Callers : LoadDone(d) ~> calls[d].pc = "return"

\* a load of the key has failed and released the caller that had joined it,
\* and the third caller, finding the key absent and no record, has run the
\* loader again
C17_Witness ==
  \E l \in Callers, d \in Callers, c \in Callers :
    /\ calls[l].pc = "return" /\ calls[l].loads = 1 /\ calls[l].err
    /\ calls[d].pc = "return" /\ calls[d].leader = l /\ calls[d].err
    /\ calls[c].pc = "retire" /\ calls[c].loads = 1 /\ ~calls[c].err
    /\ inflight["a"] = c

\* the callers inside a method that writes the entry store or its structure
Writers ==
  {c \in Callers : calls[c].pc \in {"Set", "Delete", "Clear"}
                     \/ (calls[c].pc = "Get" /\ policy # PolicyNone)}

\* the callers inside a method that only reads
Readers ==
  {c \in Callers : calls[c].pc = "Len"
                     \/ (calls[c].pc = "Get" /\ policy = PolicyNone)}

\* C19: a caller inside Set, Delete, Clear, or Get under LRU, FIFO, LFU or TTL
\* holds the exclusive lock, so at most one caller is inside such a method and
\* none is inside Len or a Get under None meanwhile; a caller inside the
\* latter holds the shared lock; and every step that changes the entry store,
\* the list or the heap is the step of the caller that holds the exclusive
\* lock, no reader inside.
C19_ExclusiveWrites ==
  /\ [](\A c \in Writers : mu.w = c)
  /\ [](Cardinality(Writers) <= 1)
  /\ [](\A c \in Readers : c \in mu.r)
  /\ [](Writers # {} => Readers = {})
  /\ [][Cur' # Cur =>
          /\ mu.w \in Writers
          /\ mu.r = {}
          /\ calls'[mu.w].pc = "idle"
          /\ \A d \in Callers \ {mu.w} : calls'[d] = calls[d]]_vars

\* a caller is inside Get under LRU, holding the exclusive lock, its entry
\* in the cache
C19_Witness ==
  \E c \in Callers :
    /\ policy = PolicyLRU
    /\ calls[c].pc = "Get"
    /\ items[calls[c].key] # NoEntry
    /\ mu.w = c

\* what Set(key, value) makes of the cache when nothing is evicted
SetUnbounded(key, value) ==
  IF policy = PolicyNone THEN setNone(Cur, key, value)
  ELSE IF items[key] # NoEntry THEN setUpdate(Cur, key, value, now)
  ELSE insertItem(Cur, key, value, now)

\* C20: New builds a cache with a negative capacity, and on it, as on a cache
\* with capacity 0, every Set under every policy is the insertion or update
\* of its key with no eviction: no key is removed and a new key makes Len
\* grow by one.
C20_NegativeIsUnbounded ==
  [][\A in \in SetInputs :
       SetCall(in[1], in[2]) =>
         /\ Cur' = SetUnbounded(in[1], in[2])
         /\ last'.removed = {}
         /\ Live(items') = Live(items) \cup {in[1]}
         /\ len(Cur') = CacheLen + (IF items[in[1]] = NoEntry THEN 1 ELSE 0)]_vars

\* a heap of three entries in a cache built with capacity -1, after the Set
\* of the third
C20_Witness ==
  /\ capacity < 0
  /\ policy \in {PolicyLFU, PolicyTTL}
  /\ last.op = "Set"
  /\ ~last.ok
  /\ last.removed = {}
  /\ Len(pq) = 3

\* the frame that frame c waits for (0: none): a loader for the call it made,
\* a caller that joined a load for the caller that loads
Awaited(c) ==
  IF calls[c].pc = "nested" THEN Nest(c)
  ELSE IF calls[c].pc = "wait" THEN calls[c].leader
  ELSE 0

\* c waits, directly or through others, for a frame that waits for itself,
\* as when two loaders each asked GetOrSet for the key the other one loads:
\* the chain of frames waited for, from c on, does not end
Entangled(c) ==
  LET chain[n \in 0..Cardinality(Frames)] ==
        IF n = 0 THEN c
        ELSE IF chain[n - 1] = 0 THEN 0
        ELSE Awaited(chain[n - 1])
  IN chain[Cardinality(Frames)] # 0

\* the frames in which a loader is being executed
InLoader == {c \in Frames : calls[c].pc \in {"load", "nested"}}

Enters(c) == cb'.last.op = "Enter" /\ cb'.last.caller = c

\* the step is the return of an Execute whose fn failed, or succeeded
ExecFailed == cb'.last.op = "Leave" /\ cb'.last.ret = "err"

ExecSucceeded == cb'.last.op = "Leave" /\ cb'.last.ret = "nil"

\* less than the timeout has elapsed since the last recorded failure
TimeoutRuns == cb.now - cb.b.lastFailure < cb.b.timeout

\* C21: in sequential use the breaker is Closed only with fewer than threshold
\* failed calls since the last success (its failure count is their number), a
\* failed call in Closed opens it if and only if it is the threshold-th of
\* them, Closed is left in no other way, and a success in Closed leaves it
\* Closed with the count at zero.
C21_TripsOnThreshold ==
  /\ [](cb.b.state = StateClosed =>
          cb.streak < cb.b.threshold /\ cb.b.failures = cb.streak)
  /\ [][(cb.b.state = StateClosed /\ ExecFailed) =>
          (cb'.b.state = StateOpen <=> cb'.streak = cb.b.threshold)]_vars
  /\ [][(cb.b.state = StateClosed /\ cb'.b.state # StateClosed) =>
          ExecFailed /\ cb'.b.state = StateOpen /\ cb'.streak = cb.b.threshold]_vars
  /\ [][(cb.b.state = StateClosed /\ ExecSucceeded) =>
          cb'.b.state = StateClosed /\ cb'.b.failures = 0 /\ cb'.streak = 0]_vars

\* the second failure in a row has opened a breaker with threshold 2
C21_Witness ==
  /\ cb # NotBuilt
  /\ cb.b.threshold = 2
  /\ cb.b.state = StateOpen
  /\ cb.streak = 2
  /\ cb.last.op = "Leave"
  /\ cb.last.ret = "err"

\* C22: an Execute that finds the breaker Open with the timeout still running
\* returns ErrCircuitOpen, does not call fn and changes neither the state nor
\* the counters nor the time of the last failure, whatever the other callers
\* are doing.
C22_OpenRejects ==
  [][\A c \in Callers :
       (Enters(c) /\ cb.b.state = StateOpen /\ TimeoutRuns) =>
         /\ cb'.last.ret = "ErrCircuitOpen"
         /\ cb'.calls[c].pc = "idle"
         /\ cb'.b = cb.b]_vars

\* a call rejected at the instant of the last failure, while another caller's
\* fn is running
C22_Witness ==
  /\ cb # NotBuilt
  /\ cb.b.state = StateOpen
  /\ cb.b.lastFailure = 1
  /\ cb.now = 1
  /\ cb.last.op = "Enter"
  /\ cb.last.ret = "ErrCircuitOpen"
  /\ \E d \in Callers : cb.calls[d].pc = "fn"

\* C23: in sequential use an Execute that finds the breaker Open with the
\* timeout elapsed makes it Half-Open and calls fn; a successful probe closes
\* the breaker if and only if it is the halfOpenMax-th probe since the breaker
\* became Half-Open, and leaves it Half-Open otherwise; a failed probe opens
\* it again with the time of the last failure set to the present.
C23_HalfOpenProbes ==
  /\ [][\A c \in Callers :
          (Enters(c) /\ cb.b.state = StateOpen /\ ~TimeoutRuns) =>
            /\ cb'.b.state = StateHalfOpen
            /\ cb'.calls[c].pc = "fn"
            /\ cb'.probes = 1]_vars
  /\ [][(cb.b.state = StateHalfOpen /\ ExecSucceeded) =>
          /\ cb'.b.state = StateClosed <=> cb.probes = cb.b.halfOpenMax
          /\ cb'.b.state \in {StateClosed, StateHalfOpen}]_vars
  /\ [][(cb.b.state = StateHalfOpen /\ ExecFailed) =>
          /\ cb'.b.state = StateOpen
          /\ cb'.b.lastFailure = cb.now]_vars
  /\ [](cb.b.state = StateHalfOpen => cb.probes <= cb.b.halfOpenMax)

\* the second successful probe has closed a breaker with halfOpenMax 2
C23_Witness ==
  /\ cb # NotBuilt
  /\ cb.b.halfOpenMax = 2
  /\ cb.b.state = StateClosed
  /\ cb.probes = 2
  /\ cb.last.op = "Leave"
  /\ cb.last.ret = "nil"

\* C24: while the breaker is Half-Open at most halfOpenMax calls have been let
\* through since it became Half-Open, and a call that arrives when that many
\* have been is rejected with ErrCircuitOpen, for concurrent callers.
C24_ProbesBounded ==
  /\ [](cb.b.state = StateHalfOpen => cb.probes <= cb.b.halfOpenMax)
  /\ [][\A c \in Callers :
          (Enters(c) /\ cb.b.state = StateHalfOpen /\ cb.probes >= cb.b.halfOpenMax) =>
            cb'.last.ret = "ErrCircuitOpen"]_vars

\* ------------------------------------------------------------ retry
\* C25: Do returns; fn is invoked at most maxAttempts times, and maxAttempts is
\* the argument of WithMaxAttempts if positive and the default otherwise; a
\* successful invocation is the last one and Do returns nil; Do returns an
\* error of fn only when maxAttempts invocations have failed, and it is the
\* last one's, with one wait fewer than invocations; and if the context is
\* not cancelled Do returns nil or that error.
C25_DoTerminates ==
  /\ <>(rt.pc = "done")
  /\ [](rt.calls <= rt.cfg.maxAttempts)
  /\ [](rt.cfg.maxAttempts = IF rt.n > 0 THEN rt.n ELSE defaultMaxAttempts)
  /\ [][(rt'.calls # rt.calls /\ rt'.lastErr = 0) => (rt'.pc = "done" /\ rt'.ret = 0)]_vars
  /\ [][rt.pc = "done" => rt'.calls = rt.calls]_vars
  /\ [](rt.pc = "done" /\ rt.ret = 0 => rt.lastErr = 0)
  /\ [](rt.pc = "done" /\ rt.ret > 0 =>
          /\ rt.calls = rt.cfg.maxAttempts
          /\ rt.ret = rt.cfg.maxAttempts
          /\ rt.waits = rt.cfg.maxAttempts - 1)
  /\ [](rt.pc = "done" /\ ~rt.cancelled => rt.ret >= 0)

\* WithMaxAttempts(0): three failed invocations, two waits, the third error
\* returned
C25_Witness ==
  /\ rt # NotBuilt
  /\ rt.n = 0
  /\ rt.pc = "done"
  /\ rt.calls = 3
  /\ rt.waits = 2
  /\ rt.ret = 3
  /\ ~rt.cancelled

\* C26: once the context has been cancelled between a failed attempt and the
\* next one, fn is not invoked again and what Do returns is the context's
\* error.
C26_CancelStopsRetry ==
  [][rt.cancelledIn \in {"select", "wait"} =>
       /\ rt'.calls = rt.calls
       /\ rt'.pc = "done" => rt'.ret = -1]_vars

\* ------------------------------------------------------------ worker pool
\* C27: without cancellation no task is handled twice, every submitted task
\* is eventually handled to the end, Shutdown returns, and when it has
\* returned every submitted task has been handled exactly once and to the
\* end; no call of Shutdown panics.
C27_AllTasksHandledOnce ==
  /\ [](\A t \in Tasks : pool.started[t] <= pool.submitted[t] /\ pool.finished[t] <= pool.started[t])
  /\ [](pool.shutdowns > 0 =>
          \A t \in Tasks : pool.started[t] = pool.submitted[t] /\ pool.finished[t] = pool.submitted[t])
  /\ [](~pool.panic)
  /\ \A t \in Tasks : (pool.submitted[t] = 1) ~> (pool.finished[t] = 1)
  /\ (pool.client.pc = "wait") ~> (pool.client.pc = "idle")

\* Shutdown has returned twice after three tasks
C27_Witness ==
  /\ pool # NotBuilt
  /\ pool.shutdowns = 2
  /\ \A t \in Tasks : pool.finished[t] = 1
  /\ ~pool.panic

\* C28 as stated: after the cancellation no handler invocation starts, and
\* the tasks then in the queue are never handled.
C28_NoStartAfterCancel ==
  /\ [][pool.cancelled => pool'.started = pool.started]_vars
  /\ [](\A t \in pool.queued : pool.started[t] = 0)

\* C28: after the cancellation a worker starts at most the one handler
\* invocation it had chosen before the cancellation, no worker goes on to
\* another task, and the tasks then in the queue are never handled.
C28_StopsAfterCurrent ==
  /\ [](\A w \in Workers : pool.late[w] <= 1)
  /\ [][pool.cancelled => \A w \in Workers :
           pool'.wk[w].pc = "default" => pool.wk[w].pc = "default"]_vars
  /\ [][\A w \in Workers : pool'.late[w] > pool.late[w] => pool.wk[w].pc = "default"]_vars
  /\ [](\A t \in pool.queued : pool.started[t] = 0)

\* a worker started a handler after the cancellation, and a queued task was
\* left unhandled when Shutdown returned
C28_Witness ==
  /\ pool # NotBuilt
  /\ \E w \in Workers : pool.late[w] = 1
  /\ pool.queued # {}
  /\ pool.shutdowns = 1

\* ------------------------------------------------------------ instrumented cache
\* C29: when a call of the wrapper's Get, Set, Delete or Clear has returned,
\* the size gauge is the inner cache's Len(), and a Get has counted a hit or
\* a miss.
C29_SizeGaugeIsLen ==
  last.fresh =>
    /\ ic.size = CacheLen
    /\ last.op = "Get" => ic.counted = IF last.ok THEN "hits" ELSE "misses"

\* ------------------------------------------------------------ heap comparison
\* C30: under LFU and TTL, Less on the entries of the heap is irreflexive,
\* asymmetric and transitive, being unordered is transitive, and two entries
\* with different access times are ordered one way or the other.
C30_LessOrdersTies ==
  policy \in {PolicyLFU, PolicyTTL} =>
    \A i, j \in 0..(pqLen(Cur) - 1) :
      /\ ~Less(Cur, i, i)
      /\ Less(Cur, i, j) => ~Less(Cur, j, i)
      /\ \A k \in 0..(pqLen(Cur) - 1) :
           /\ Less(Cur, i, j) /\ Less(Cur, j, k) => Less(Cur, i, k)
           /\ (~Less(Cur, i, j) /\ ~Less(Cur, j, i) /\ ~Less(Cur, j, k) /\ ~Less(Cur, k, j))
                => (~Less(Cur, i, k) /\ ~Less(Cur, k, i))
      /\ items[At(Cur, i)].accessTime # items[At(Cur, j)].accessTime
           => (Less(Cur, i, j) \/ Less(Cur, j, i))

\* ------------------------------------------------------------ TTL order
\* C31: under TTL a Get that hits leaves the order in which the entries would
\* be evicted, and so the next victim, as it was, whatever the default TTL.
C31_GetKeepsTTLOrder ==
  [][policy = PolicyTTL =>
       \A k \in Keys :
         (GetCall(k) /\ last'.ok) =>
           /\ EvictionOrder(Cur') = EvictionOrder(Cur)
           /\ pq'[1] = pq[1]]_vars

\* ------------------------------------------------------------ eviction by Set
\* v is the entry that the policy evicts next: the least recently used, the
\* first inserted, the least (frequency, access time), the first to expire
PolicyVictim(v) ==
  CASE policy = PolicyLRU -> v = useOrder[Len(useOrder)]
    [] policy = PolicyFIFO -> v = insOrder[Len(insOrder)]
    [] policy = PolicyLFU -> \A k \in Live(items) : LFUBefore(items, v, k)
    [] policy = PolicyTTL -> \A k \in Live(items) : ExpRank(items[v]) <= ExpRank(items[k])
    [] OTHER -> FALSE

\* a Set that inserts a new key
InsertStep == SetStep /\ items[last'.key] = NoEntry

\* C32 as stated: a Set of a new key into a cache with capacity > 0 and Len =
\* capacity removes exactly the victim and leaves Len = capacity, under every
\* policy; with Len < capacity or capacity = 0 it removes none; no Set
\* removes more than one entry.
C32_SetEvictsOne ==
  [][/\ InsertStep =>
          IF capacity > 0 /\ CacheLen = capacity
            THEN /\ \E v \in Live(items) : Evicts(v) /\ PolicyVictim(v)
                 /\ len(Cur') = capacity
            ELSE (CacheLen < capacity \/ capacity = 0) =>
                   Live(items') = Live(items) \cup {last'.key}
     /\ SetStep => Cardinality(Live(items) \ Live(items')) <= 1]_vars

\* C32: under every policy but None a Set of a new key into a cache with
\* capacity > 0 and Len = capacity removes exactly the policy's victim and
\* leaves Len = capacity; under None, and with Len < capacity or capacity =
\* 0, it removes none; no Set removes more than one entry.
C32_SetEvictsOneUnlessNone ==
  [][/\ InsertStep =>
          IF policy # PolicyNone /\ capacity > 0 /\ CacheLen = capacity
            THEN /\ \E v \in Live(items) : Evicts(v) /\ PolicyVictim(v)
                 /\ len(Cur') = capacity
            ELSE (policy = PolicyNone \/ CacheLen < capacity \/ capacity = 0) =>
                   /\ Live(items') = Live(items) \cup {last'.key}
                   /\ last'.removed = {}
     /\ SetStep => Cardinality(Live(items) \ Live(items')) <= 1]_vars

\* FIFO with capacity 1: the Set of b has removed a; and None with capacity 1
\* is not this case
C32_Witness ==
  /\ policy = PolicyFIFO
  /\ capacity = 1
  /\ last.op = "Set"
  /\ last.key = "b"
  /\ last.removed = {"a"}
  /\ CacheLen = 1

\* ------------------------------------------------------------ frequency
\* the step is a Get that hits k, or a Set that updates k
Uses(k) ==
  \/ GetCall(k) /\ last'.ok
  \/ SetStep /\ last'.key = k /\ items[k] # NoEntry

\* the counter of k is 1 when the entry is created, one more after each hit
\* and each update, and otherwise as it was, as long as the entry lives
CountsUses(k) ==
  /\ (items[k] = NoEntry /\ items'[k] # NoEntry) => items'[k].frequency = 1
  /\ (items[k] # NoEntry /\ items'[k] # NoEntry) =>
       items'[k].frequency = items[k].frequency + (IF Uses(k) THEN 1 ELSE 0)

\* C33 as stated: under every policy the frequency of a live entry is 1 plus
\* the hits and the updates of its key since the entry was created.
C33_FrequencyCounts ==
  [][\A k \in Keys : CountsUses(k)]_vars

\* C33: under every policy but None the frequency of a live entry is 1 plus
\* the hits and the updates of its key since the entry was created, so it
\* never decreases and is 1 when the key is created again; under None it is
\* 0 from the creation on.
C33_FrequencyCountsUnlessNone ==
  /\ [][policy # PolicyNone => \A k \in Keys : CountsUses(k)]_vars
  /\ [](policy = PolicyNone => \A k \in Live(items) : items[k].frequency = 0)

\* LFU: an entry created by a Set, then updated or hit twice, has counter 3
\* after a hit
C33_Witness ==
  /\ policy = PolicyLFU
  /\ last.op = "Get"
  /\ last.ok
  /\ items[last.key].frequency = 3
  /\ CacheLen = 2

\* ------------------------------------------------------------ reads that write nothing
\* C34: a Get of an absent key, under every policy, and a Get that hits under
\* None leave the entry store, the heap and the list as they were, every
\* field of every entry included, and with them the order of the evictions
\* to come.
C34_GetLeavesCache ==
  [][\A k \in Keys :
       (GetCall(k) /\ (items[k] = NoEntry \/ (policy = PolicyNone /\ last'.ok))) =>
         /\ UNCHANGED <<items, pq, evictList>>
         /\ EvictionOrder(Cur') = EvictionOrder(Cur)
         /\ last'.removed = {}
         /\ items[k] = NoEntry => ~last'.ok]_vars

\* LFU: a Get has missed an absent key beside two live entries, one of them
\* already read
C34_Witness ==
  /\ policy = PolicyLFU
  /\ last.op = "Get"
  /\ last.fresh
  /\ ~last.ok
  /\ last.removed = {}
  /\ items[last.key] = NoEntry
  /\ CacheLen = 2
  /\ \E k \in Live(items) : items[k].frequency = 2

\* ------------------------------------------------------------ Set of an expired entry
\* C35: a Set of a key whose entry is there and past its expiration updates
\* that entry: the live keys stay the same and nothing is evicted, the
\* expiration becomes now plus the default TTL, the frequency is one more
\* than it was and the value is the new one; a Get of the key that comes
\* next, not after the new expiration, hits and returns that value.
C35_SetOfExpiredUpdates ==
  [][/\ \A in \in SetInputs :
          (SetCall(in[1], in[2]) /\ Stale(in[1])) =>
            /\ Live(items') = Live(items)
            /\ last'.removed = {}
            /\ last'.peak = CacheLen
            /\ len(Cur') = CacheLen
            /\ items'[in[1]].expiration = now + ttl
            /\ ttl > 0
            /\ items'[in[1]].frequency = items[in[1]].frequency + 1
            /\ items'[in[1]].value = in[2]
     /\ \A k \in Keys :
          (GetCall(k) /\ last.op = "Set" /\ last.key = k /\ last.stale
             /\ now <= items[k].expiration) =>
            (last'.ok /\ last'.ret = last.val /\ last'.removed = {})]_vars

\* a full cache of one entry: the entry expired and was set again with
\* another value
C35_Witness ==
  /\ capacity = 1
  /\ ttl > 0
  /\ last.op = "Set"
  /\ last.stale
  /\ last.val = 1
  /\ CacheLen = 1
  /\ items[last.key].frequency = 2
  /\ items[last.key].value = 1
  /\ items[last.key].expiration = now + ttl

\* ------------------------------------------------------------ breaker results
\* the step is the return of caller c's fn and the recording of its result
Leaves(c) == cb'.last.op = "Leave" /\ cb'.last.caller = c /\ cb.calls[c].pc = "fn"

\* C36: with concurrent callers, onSuccess and onFailure are never reached
\* while the breaker is Open, and the result of a call is recorded in the
\* state in which the call was let through.
C36_ResultsInAdmittingState ==
  [][\A c \in Callers :
       Leaves(c) =>
         /\ cb.b.state # StateOpen
         /\ cb.b.state = cb.calls[c].from]_vars

\* ------------------------------------------------------------ breaker callback
\* C37: a step that changes the breaker's state calls onStateChange once,
\* with the state before and the state after, which differ; a step that does
\* not change it makes no call; and each call's from is the to of the call
\* before it, Closed for the first: for concurrent callers and Reset.
C37_CallbackPerChange ==
  /\ [][/\ cb'.b.state # cb.b.state =>
             cb'.fired = <<[from |-> cb.b.state, to |-> cb'.b.state]>>
        /\ cb'.b.state = cb.b.state => cb'.fired = <<>>]_vars
  /\ [](\A i \in 1..Len(cb.fired) :
          /\ cb.fired[i].from # cb.fired[i].to
          /\ cb.fired[i].from = IF i = 1 THEN cb.heard ELSE cb.fired[i - 1].to)
  /\ [](Heard(cb.heard, cb.fired) = cb.b.state)

\* a Reset of a Half-Open breaker has called the callback with (Half-Open,
\* Closed) while a call was inside fn
C37_Witness ==
  /\ cb # NotBuilt
  /\ cb.last.op = "Reset"
  /\ cb.fired = <<[from |-> StateHalfOpen, to |-> StateClosed]>>
  /\ cb.heard = StateHalfOpen
  /\ \E c \in Callers : cb.calls[c].pc = "fn"

\* ------------------------------------------------------------ backoff
MinOf(a, b) == IF a <= b THEN a ELSE b

\* the delay that the strategy asks for before the cap, as a number
StrategyDelay(cfg, attempt) ==
  CASE cfg.strategy = StrategyConstant -> cfg.delay
    [] cfg.strategy = StrategyLinear -> cfg.delay * (attempt + 1)
    [] OTHER -> cfg.delay * Pow2(attempt)

\* C38: without jitter the computed wait is the smaller of maxDelay and the
\* strategy's delay (d, d*(a+1), d*2^a), and with or without overflow in
\* the product it lies between 0 and maxDelay.
C38_DelayIsCapped ==
  (rt.pc = "computed" /\ ~rt.cfg.jitter) =>
    /\ rt.delay = MinOf(rt.cfg.maxDelay, StrategyDelay(rt.cfg, rt.attempt))
    /\ 0 <= rt.delay
    /\ rt.delay <= rt.cfg.maxDelay

\* ------------------------------------------------------------ backpressure
\* C39: a Submit called before Shutdown returns in the end, handlers
\* returning, whether or not the pool's context has been cancelled.
C39_SubmitReturns == (pool.client.pc = "send") ~> (pool.client.pc = "idle")

====
